---- MODULE Spec2Model ----
(***************************************************************************)
(* Model of the CHI form rule engine (expression evaluator, branching      *)
(* resolver, validation rules, definition validator) and of the forms      *)
(* service that stores versioned form definitions.                         *)
(*                                                                         *)
(* Representation.  A JavaScript string is a TLA+ string.  An expression   *)
(* string is the sequence of its blank-separated tokens (operand texts     *)
(* and operator texts); trimming is therefore implicit.  A JavaScript      *)
(* value is a tagged record (Str, Num, Bool, Null, Undef, Arr).  An        *)
(* optional property is a record with a "present" flag.  An error path or  *)
(* message built by string interpolation is the sequence of its parts.     *)
(***************************************************************************)
EXTENDS Integers, Sequences, FiniteSets, TLC

\* The engine operation that was called last ("none" before the first call).
VARIABLE call

(***************************************************************************)
(* JavaScript values                                                       *)
(***************************************************************************)
Str(s) == [t |-> "str", s |-> s, n |-> 0, a |-> <<>>]
Num(n) == [t |-> "num", s |-> "", n |-> n, a |-> <<>>]
Bool(b) == [t |-> "bool", s |-> "", n |-> IF b THEN 1 ELSE 0, a |-> <<>>]
Arr(items) == [t |-> "arr", s |-> "", n |-> 0, a |-> items]
Null == [t |-> "null", s |-> "", n |-> 0, a |-> <<>>]
Undef == [t |-> "undef", s |-> "", n |-> 0, a |-> <<>>]
NaN == [t |-> "nan", s |-> "", n |-> 0, a |-> <<>>]

\* Number(text) for the texts of the model: the decimal numerals, and the
\* empty or blank string, which JavaScript converts to 0.
NumeralValue ==
  [s \in {"", " ", "0", "1", "5", "10", "65", "120"} |->
     CASE s = "" -> 0 [] s = " " -> 0 [] s = "0" -> 0 [] s = "1" -> 1
       [] s = "5" -> 5 [] s = "10" -> 10 [] s = "65" -> 65 [] s = "120" -> 120]

\* String.prototype.trim() === '' for the texts of the model.
IsBlank(s) == s \in {"", " "}

\* An array of strings converted to a string: Array.prototype.join(',').
\* Only empty and one-element arrays occur on this path in the model.
JoinArr(items) == IF Len(items) = 0 THEN "" ELSE items[1]

\* ToNumber: Num(n) or NaN.
RECURSIVE ToNumber(_)
ToNumber(v) ==
  CASE v.t = "num" -> v
    [] v.t = "nan" -> NaN
    [] v.t = "bool" -> Num(v.n)
    [] v.t = "null" -> Num(0)
    [] v.t = "undef" -> NaN
    [] v.t = "str" -> IF v.s \in DOMAIN NumeralValue THEN Num(NumeralValue[v.s]) ELSE NaN
    [] v.t = "arr" -> IF Len(v.a) <= 1 THEN ToNumber(Str(JoinArr(v.a))) ELSE NaN

\* The global isNaN(v): isNaN(ToNumber(v)).
isNaN(v) == ToNumber(v).t = "nan"

\* String(v) for the values that reach a string comparison.
StringOf(v) ==
  CASE v.t = "str" -> v.s
    [] v.t = "arr" -> JoinArr(v.a)
    [] v.t = "bool" -> IF v.n = 1 THEN "true" ELSE "false"
    [] v.t = "null" -> "null"
    [] v.t = "undef" -> "undefined"
    [] v.t = "nan" -> "NaN"
    [] v.t = "num" -> CHOOSE s \in DOMAIN NumeralValue \ {"", " "} : NumeralValue[s] = v.n

\* The abstract equality comparison left == right of JavaScript.
\* sameRef says that both operands are the same object (two reads of one
\* answer): an array equals only itself.
RECURSIVE LooseEq(_, _, _)
LooseEq(l, r, sameRef) ==
  CASE l.t = "nan" \/ r.t = "nan" -> FALSE
    [] l.t = r.t /\ l.t = "arr" -> sameRef
    [] l.t = r.t /\ l.t = "str" -> l.s = r.s
    [] l.t = r.t /\ l.t \in {"num", "bool"} -> l.n = r.n
    [] l.t \in {"null", "undef"} /\ r.t \in {"null", "undef"} -> TRUE
    [] l.t \in {"null", "undef"} \/ r.t \in {"null", "undef"} -> FALSE
    [] l.t = "bool" -> LooseEq(ToNumber(l), r, FALSE)
    [] r.t = "bool" -> LooseEq(l, ToNumber(r), FALSE)
    [] l.t = "arr" -> LooseEq(Str(JoinArr(l.a)), r, FALSE)
    [] r.t = "arr" -> LooseEq(l, Str(JoinArr(r.a)), FALSE)
    [] OTHER -> LET ln == ToNumber(l)
                    rn == ToNumber(r)
                IN  ln.t = "num" /\ rn.t = "num" /\ ln.n = rn.n

(***************************************************************************)
(* Texts                                                                   *)
(***************************************************************************)
\* The comparison operators, in the order of the alternation of operatorRegex.
Operators == <<"==", "!=", ">=", "<=", ">", "<", "=">>

IsOperator(tok) == \E i \in 1..Len(Operators) : Operators[i] = tok

\* Number of occurrences of the text op inside the token tok, as
\* String.prototype.split(op) counts them.  Operand tokens of the model hold
\* no operator character.
Occurrences(op, tok) ==
  CASE tok = op -> 1
    [] op = "=" /\ tok = "==" -> 2
    [] op = "=" /\ tok \in {"!=", ">=", "<="} -> 1
    [] op = ">" /\ tok = ">=" -> 1
    [] op = "<" /\ tok = "<=" -> 1
    [] OTHER -> 0

\* The calendar days of the model, as ISO texts, with their order.
Days == {"2020-01-01", "2024-06-01", "2030-01-01"}

DayRank(d) == CASE d = "2020-01-01" -> 20200101
                [] d = "2024-06-01" -> 20240601
                [] d = "2030-01-01" -> 20300101

\* `'${today}'`: the quoted literal that replaces today().
QuotedDay(d) == CASE d = "2020-01-01" -> "'2020-01-01'"
                  [] d = "2024-06-01" -> "'2024-06-01'"
                  [] d = "2030-01-01" -> "'2030-01-01'"

\* value.slice(1, -1) for the quoted tokens of the model.
Unquoted ==
  [q \in {"'Yes'", "'No'", "'5'", "'a'", "'2020-01-01'", "'2024-06-01'", "'2030-01-01'"} |->
     CASE q = "'Yes'" -> "Yes" [] q = "'No'" -> "No" [] q = "'5'" -> "5" [] q = "'a'" -> "a"
       [] q = "'2020-01-01'" -> "2020-01-01" [] q = "'2024-06-01'" -> "2024-06-01"
       [] q = "'2030-01-01'" -> "2030-01-01"]

\* startsWith/endsWith a quote character.
IsQuoted(tok) == tok \in DOMAIN Unquoted

\* The tokens that /\b([a-zA-Z_][a-zA-Z0-9_]*)\b/ matches as a whole.
IdentifierTokens == {"a", "b", "c", "x", "Yes", "No", "true", "false", "and", "or", "not", "Not"}

\* field.toLowerCase()
toLowerCase(tok) == IF tok = "Not" THEN "not" ELSE IF tok = "Yes" THEN "yes"
                    ELSE IF tok = "No" THEN "no" ELSE tok

\* The text of an operand that spans several tokens ("b = c"); the model's
\* operands of one token are their token, the empty operand is "".
OperandText(toks) ==
  IF Len(toks) = 0 THEN ""
  ELSE IF Len(toks) = 1 THEN toks[1]
  ELSE "<several tokens>"

\* The order of the model's texts under String.prototype.localeCompare (root
\* collation: blank, punctuation, digits, then letters without regard to case).
CollationOrder ==
  <<"", " ", "<several tokens>", "0", "1", "10", "120", "2020-01-01", "2024-06-01",
    "2030-01-01", "5", "65", "a", "b", "c", "false", "NaN", "No", "not", "Not", "null",
    "true", "undefined", "x", "Yes">>

CollationRank(s) == CHOOSE i \in 1..Len(CollationOrder) : CollationOrder[i] = s

localeCompare(l, r) ==
  IF CollationRank(l) < CollationRank(r) THEN -1
  ELSE IF CollationRank(l) > CollationRank(r) THEN 1 ELSE 0

\* new Date(v): whether the date is valid, and its getTime() (a day text by its
\* rank, a number as that many milliseconds after the epoch).  The numerals
\* are read by the engine's legacy parser as days before every day of the model.
RECURSIVE DateOf(_)
DateOf(v) ==
  CASE v.t = "num" -> [valid |-> TRUE, time |-> v.n]
    [] v.t = "bool" -> [valid |-> TRUE, time |-> v.n]
    [] v.t = "null" -> [valid |-> TRUE, time |-> 0]
    [] v.t \in {"undef", "nan"} -> [valid |-> FALSE, time |-> 0]
    [] v.t = "arr" -> IF Len(v.a) <= 1 THEN DateOf(Str(JoinArr(v.a)))
                      ELSE [valid |-> FALSE, time |-> 0]
    [] v.t = "str" ->
         IF v.s \in Days THEN [valid |-> TRUE, time |-> DayRank(v.s)]
         ELSE IF v.s \in DOMAIN NumeralValue \ {"", " "}
              THEN [valid |-> TRUE, time |-> 20000101 + NumeralValue[v.s]]
              ELSE [valid |-> FALSE, time |-> 0]

(***************************************************************************)
(* ExpressionEvaluator                                                     *)
(***************************************************************************)
\* An absent (undefined) optional string, and a present one.
NoText == [present |-> FALSE, text |-> <<>>]
Text(toks) == [present |-> TRUE, text |-> toks]

\* The truthiness test `if (s)` of an optional string: present and not "".
Truthy(opt) == opt.present /\ opt.text # <<>>

replaceSpecialFunctions(expression, today) ==
  [i \in 1..Len(expression) |->
     IF expression[i] = "today()" THEN QuotedDay(today) ELSE expression[i]]

RECURSIVE SplitCount(_, _)
\* expression.split(operator).length - 1
SplitCount(expression, operator) ==
  IF expression = <<>> THEN 0
  ELSE Occurrences(operator, Head(expression)) + SplitCount(Tail(expression), operator)

NoParse == [ok |-> FALSE, left |-> "", operator |-> "", right |-> ""]

parseExpression(expression) ==
  LET matches == {i \in 1..Len(expression) : IsOperator(expression[i])}
  IN  IF matches = {} THEN NoParse
      ELSE LET m == CHOOSE i \in matches : \A j \in matches : i <= j
               operator == expression[m]
           IN  IF SplitCount(expression, operator) + 1 # 2 THEN NoParse
               ELSE [ok |-> TRUE,
                     left |-> OperandText(SubSeq(expression, 1, m - 1)),
                     operator |-> operator,
                     right |-> OperandText(SubSeq(expression, m + 1, Len(expression)))]

parseLiteral(value) ==
  IF IsQuoted(value) THEN Str(Unquoted[value])
  ELSE IF value = "true" THEN Bool(TRUE)
  ELSE IF value = "false" THEN Bool(FALSE)
  ELSE IF ~isNaN(Str(value)) THEN ToNumber(Str(value))
  ELSE Str(value)

\* getValue with null for an operand that is no key of the answer map.
getValue_NullWhenMissing(value, data) ==
  IF value \in DOMAIN data THEN data[value] ELSE Null

getValue(value, data) ==
  IF value \in DOMAIN data THEN data[value] ELSE parseLiteral(value)

compareValues(left, right) ==
  IF ~isNaN(left) /\ ~isNaN(right) THEN ToNumber(left).n - ToNumber(right).n
  ELSE IF DateOf(left).valid /\ DateOf(right).valid
       THEN DateOf(left).time - DateOf(right).time
       ELSE localeCompare(StringOf(left), StringOf(right))

\* sameRef: both operands read the same answer (one object).
evaluateOperator(left, operator, right, sameRef) ==
  CASE operator \in {"==", "="} -> LooseEq(left, right, sameRef)
    [] operator = "!=" -> ~LooseEq(left, right, sameRef)
    [] operator = ">" -> compareValues(left, right) > 0
    [] operator = "<" -> compareValues(left, right) < 0
    [] operator = ">=" -> compareValues(left, right) >= 0
    [] operator = "<=" -> compareValues(left, right) <= 0
    [] OTHER -> FALSE

\* data.hasOwnProperty(value) calls whatever is stored under hasOwnProperty in
\* the answer map: an answer stored under that key is no function and the
\* call throws a TypeError.
getValueThrows(data) == "hasOwnProperty" \in DOMAIN data

\* The outcome of a call of evaluate: the boolean it returned, or threw = TRUE
\* when it ended with an exception.
Evaluated(value) == [threw |-> FALSE, value |-> value]
EvaluateThrew == [threw |-> TRUE, value |-> FALSE]

\* The try block of evaluate.
tryEvaluate(expression, data, today) ==
  LET parsed == parseExpression(replaceSpecialFunctions(expression, today))
  IN  IF ~parsed.ok THEN Evaluated(FALSE)
      ELSE IF getValueThrows(data) THEN EvaluateThrew
      ELSE Evaluated(evaluateOperator(getValue(parsed.left, data), parsed.operator,
                                      getValue(parsed.right, data),
                                      parsed.left = parsed.right /\ parsed.left \in DOMAIN data))

\* evaluate without its catch clause.
catchEvaluate_Rethrow(attempt) == attempt

\* catch (error) { console.error(...); return false; }
catchEvaluate(attempt) == IF attempt.threw THEN Evaluated(FALSE) ELSE attempt

evaluateOutcome(expression, data, today) == catchEvaluate(tryEvaluate(expression, data, today))

evaluate(expression, data, today) == evaluateOutcome(expression, data, today).value

RECURSIVE Dedup(_, _)
\* [...new Set(items)]: first occurrences, in order.
Dedup(items, seen) ==
  IF items = <<>> THEN <<>>
  ELSE IF Head(items) \in seen THEN Dedup(Tail(items), seen)
  ELSE <<Head(items)>> \o Dedup(Tail(items), seen \cup {Head(items)})

Reserved == {"true", "false", "and", "or", "not"}

extractFieldReferences(expression) ==
  Dedup(SelectSeq(expression,
                  LAMBDA tok : /\ ~IsQuoted(tok)
                               /\ tok # "today()"
                               /\ tok \in IdentifierTokens
                               /\ toLowerCase(tok) \notin Reserved),
        {})

(***************************************************************************)
(* Form definitions (schema.zod.ts)                                        *)
(***************************************************************************)
\* An optional array: absent (undefined) or present with its items.
NoItems == [present |-> FALSE, items |-> <<>>]
Items(xs) == [present |-> TRUE, items |-> xs]

FieldTypes == {"text", "textarea", "number", "date", "singleSelect", "multiselect",
               "file", "signature"}

RuleKinds == {"required", "requiredIf", "min", "max", "regex", "cross_field"}

\* field.branching is absent (hasBranching = FALSE) or an object whose showIf
\* and hideIf are optional strings.
Field(id, type, options, hasBranching, showIf, hideIf, validation) ==
  [id |-> id, type |-> type, options |-> options, hasBranching |-> hasBranching,
   showIf |-> showIf, hideIf |-> hideIf, validation |-> validation]

\* A validation rule; value is a JavaScript value (Undef when absent).
Rule(rule, value, condition, message) ==
  [rule |-> rule, value |-> value, condition |-> condition, message |-> message]

Group(id, fields) == [id |-> id, fields |-> fields]

\* A section as the request body gives it: fields and groups may be absent.
Section(id, fields, groups) == [id |-> id, fields |-> fields, groups |-> groups]

(***************************************************************************)
(* BranchingEngine                                                         *)
(***************************************************************************)
\* `fields.push(...section.fields)` and `for (const group of section.groups)`
\* throw a TypeError when the property is undefined.
Iterable(form) ==
  \A i \in 1..Len(form.sections) :
    form.sections[i].fields.present /\ form.sections[i].groups.present

RECURSIVE GroupFields(_)
GroupFields(groups) ==
  IF groups = <<>> THEN <<>> ELSE Head(groups).fields \o GroupFields(Tail(groups))

RECURSIVE SectionFields(_)
SectionFields(sections) ==
  IF sections = <<>> THEN <<>>
  ELSE Head(sections).fields.items \o GroupFields(Head(sections).groups.items)
       \o SectionFields(Tail(sections))

\* The flattened fields of a form for which Iterable holds.
getAllFields(form) == SectionFields(form.sections)

\* isFieldVisible with the two conditions in the other order: showIf decides last.
isFieldVisible_ShowIfLast(field, data, resolvedVisibility, today) ==
  IF ~field.hasBranching THEN TRUE
  ELSE LET hidden == Truthy(field.hideIf) /\ evaluate(field.hideIf.text, data, today)
       IN  IF Truthy(field.showIf) THEN evaluate(field.showIf.text, data, today) ELSE ~hidden

\* isFieldVisible that also hides a field whose showIf reads a field that was
\* resolved as hidden.
isFieldVisible_Cascade(field, data, resolvedVisibility, today) ==
  IF ~field.hasBranching THEN TRUE
  ELSE LET shown == IF Truthy(field.showIf)
                    THEN /\ evaluate(field.showIf.text, data, today)
                         /\ \A i \in 1..Len(resolvedVisibility.keys) :
                              \/ resolvedVisibility.val[i]
                              \/ \A j \in 1..Len(field.showIf.text) :
                                   field.showIf.text[j] # resolvedVisibility.keys[i]
                    ELSE TRUE
       IN  IF Truthy(field.hideIf) /\ evaluate(field.hideIf.text, data, today)
           THEN FALSE ELSE shown

\* resolvedVisibility, the visibility computed so far, is passed and not read.
isFieldVisible(field, data, resolvedVisibility, today) ==
  IF ~field.hasBranching THEN TRUE
  ELSE LET shown == IF Truthy(field.showIf) THEN evaluate(field.showIf.text, data, today)
                    ELSE TRUE
       IN  IF Truthy(field.hideIf) /\ evaluate(field.hideIf.text, data, today)
           THEN FALSE ELSE shown

\* A JavaScript Map: its keys in insertion order and its entries.  Setting a
\* key that is present keeps the key's place and replaces its value.
EmptyMap == [keys |-> <<>>, val |-> <<>>]
MapHas(m, k) == \E i \in 1..Len(m.keys) : m.keys[i] = k
MapIndex(m, k) == CHOOSE i \in 1..Len(m.keys) : m.keys[i] = k
MapGet(m, k) == m.val[MapIndex(m, k)]
MapSet(m, k, v) ==
  IF MapHas(m, k) THEN [m EXCEPT !.val[MapIndex(m, k)] = v]
  ELSE [keys |-> Append(m.keys, k), val |-> Append(m.val, v)]

RECURSIVE ResolveLoop(_, _, _, _)
ResolveLoop(fields, data, visibility, today) ==
  IF fields = <<>> THEN visibility
  ELSE ResolveLoop(Tail(fields), data,
                   MapSet(visibility, Head(fields).id,
                          isFieldVisible(Head(fields), data, visibility, today)),
                   today)

resolveVisibility(form, data, today) ==
  ResolveLoop(getAllFields(form), data, EmptyMap, today)

RECURSIVE RuleDeps(_, _)
\* RuleDeps without the filter that removes the field's own identifier.
RuleDeps_KeepSelf(rules, fieldId) ==
  IF rules = <<>> THEN <<>>
  ELSE (IF Truthy(Head(rules).condition)
        THEN extractFieldReferences(Head(rules).condition.text)
        ELSE <<>>) \o RuleDeps(Tail(rules), fieldId)

\* The references of the rules' conditions, the field's own identifier removed.
RuleDeps(rules, fieldId) ==
  IF rules = <<>> THEN <<>>
  ELSE (IF Truthy(Head(rules).condition)
        THEN SelectSeq(extractFieldReferences(Head(rules).condition.text),
                       LAMBDA ref : ref # fieldId)
        ELSE <<>>) \o RuleDeps(Tail(rules), fieldId)

FieldDeps(field) ==
  Dedup((IF field.hasBranching /\ Truthy(field.showIf)
         THEN extractFieldReferences(field.showIf.text) ELSE <<>>)
        \o (IF field.hasBranching /\ Truthy(field.hideIf)
            THEN extractFieldReferences(field.hideIf.text) ELSE <<>>)
        \o RuleDeps(field.validation, field.id), {})

RECURSIVE GraphLoop(_, _)
GraphLoop(fields, dependencies) ==
  IF fields = <<>> THEN dependencies
  ELSE GraphLoop(Tail(fields), MapSet(dependencies, Head(fields).id, FieldDeps(Head(fields))))

buildDependencyGraph(form) == GraphLoop(getAllFields(form), EmptyMap)

\* graph.get(fieldId) || []
GraphDeps(graph, fieldId) == IF MapHas(graph, fieldId) THEN MapGet(graph, fieldId) ELSE <<>>

\* path.indexOf(x): the 0-based index of the first x, or -1.
IndexOf(path, x) ==
  IF \E i \in 1..Len(path) : path[i] = x
  THEN (CHOOSE i \in 1..Len(path) : path[i] = x /\ \A j \in 1..(i - 1) : path[j] # x) - 1
  ELSE -1

\* path.slice(start): from the 0-based index start, counted from the end when
\* start is negative.
Slice(path, start) ==
  IF start >= 0 THEN SubSeq(path, start + 1, Len(path))
  ELSE SubSeq(path, (IF Len(path) + start < 0 THEN 0 ELSE Len(path) + start) + 1, Len(path))

RECURSIVE detectCycle(_, _, _, _)
RECURSIVE DepsLoop(_, _, _, _)
\* detectCycle without `recursionStack.delete(fieldId)`.
detectCycle_NoDelete(graph, fieldId, path, st) ==
  DepsLoop(graph, GraphDeps(graph, fieldId), Append(path, fieldId),
           [visited |-> st.visited \cup {fieldId},
            recursionStack |-> st.recursionStack \cup {fieldId},
            cycles |-> st.cycles])

\* The closure detectCycle: st holds the visited set, the recursion stack and
\* the cycles found so far, which the closure shares among its calls.
detectCycle(graph, fieldId, path, st) ==
  LET entered == [visited |-> st.visited \cup {fieldId},
                  recursionStack |-> st.recursionStack \cup {fieldId},
                  cycles |-> st.cycles]
      after == DepsLoop(graph, GraphDeps(graph, fieldId), Append(path, fieldId), entered)
  IN  [after EXCEPT !.recursionStack = @ \ {fieldId}]

\* DepsLoop recording the whole path instead of `path.slice(cycleStart)`.
DepsLoop_WholePath(graph, deps, path, st) ==
  IF deps = <<>> THEN st
  ELSE LET dep == Head(deps)
           next == IF dep \notin st.visited THEN detectCycle(graph, dep, path, st)
                   ELSE IF dep \in st.recursionStack
                        THEN [st EXCEPT !.cycles = Append(@, path \o <<dep>>)]
                        ELSE st
       IN  DepsLoop(graph, Tail(deps), path, next)

DepsLoop(graph, deps, path, st) ==
  IF deps = <<>> THEN st
  ELSE LET dep == Head(deps)
           next == IF dep \notin st.visited THEN detectCycle(graph, dep, path, st)
                   ELSE IF dep \in st.recursionStack
                        THEN [st EXCEPT !.cycles =
                                Append(@, Slice(path, IndexOf(path, dep)) \o <<dep>>)]
                        ELSE st
       IN  DepsLoop(graph, Tail(deps), path, next)

RECURSIVE RootsLoop(_, _, _)
RootsLoop(graph, keys, st) ==
  IF keys = <<>> THEN st
  ELSE RootsLoop(graph, Tail(keys),
                 IF Head(keys) \notin st.visited THEN detectCycle(graph, Head(keys), <<>>, st)
                 ELSE st)

detectCircularDependencies(form) ==
  LET graph == buildDependencyGraph(form)
  IN  RootsLoop(graph, graph.keys,
                [visited |-> {}, recursionStack |-> {}, cycles |-> <<>>]).cycles

RECURSIVE visit(_, _, _)
RECURSIVE VisitDeps(_, _, _)
\* visit with `order.push(fieldId)` ahead of the loop over the dependencies.
visit_PreOrder(graph, fieldId, st) ==
  IF fieldId \in st.visited THEN st
  ELSE VisitDeps(graph, GraphDeps(graph, fieldId),
                 [visited |-> st.visited \cup {fieldId}, order |-> Append(st.order, fieldId)])

\* The closure visit: st holds the visited set and the order built so far,
\* which the closure shares among its calls.
visit(graph, fieldId, st) ==
  IF fieldId \in st.visited THEN st
  ELSE LET after == VisitDeps(graph, GraphDeps(graph, fieldId),
                              [st EXCEPT !.visited = @ \cup {fieldId}])
       IN  [after EXCEPT !.order = Append(@, fieldId)]

VisitDeps(graph, deps, st) ==
  IF deps = <<>> THEN st
  ELSE VisitDeps(graph, Tail(deps), visit(graph, Head(deps), st))

RECURSIVE OrderLoop(_, _, _)
OrderLoop(graph, fields, st) ==
  IF fields = <<>> THEN st
  ELSE OrderLoop(graph, Tail(fields), visit(graph, Head(fields).id, st))

getEvaluationOrder(form) ==
  OrderLoop(buildDependencyGraph(form), getAllFields(form),
            [visited |-> {}, order |-> <<>>]).order

RECURSIVE RefErrors(_, _, _, _)
\* One entry for every reference of the expression that names no field.
RefErrors(refs, allFieldIds, fieldId, expression) ==
  IF refs = <<>> THEN <<>>
  ELSE (IF Head(refs) \notin allFieldIds
        THEN <<[fieldId |-> fieldId, invalidRef |-> Head(refs), expression |-> expression]>>
        ELSE <<>>) \o RefErrors(Tail(refs), allFieldIds, fieldId, expression)

FieldIdSet(fields) == {fields[i].id : i \in 1..Len(fields)}

RECURSIVE FieldRefLoop(_, _)
FieldRefLoop(fields, allFieldIds) ==
  IF fields = <<>> THEN <<>>
  ELSE LET field == Head(fields)
       IN  (IF field.hasBranching /\ Truthy(field.showIf)
            THEN RefErrors(extractFieldReferences(field.showIf.text), allFieldIds,
                           field.id, field.showIf.text)
            ELSE <<>>)
           \o (IF field.hasBranching /\ Truthy(field.hideIf)
               THEN RefErrors(extractFieldReferences(field.hideIf.text), allFieldIds,
                              field.id, field.hideIf.text)
               ELSE <<>>)
           \o FieldRefLoop(Tail(fields), allFieldIds)

validateFieldReferences(form) ==
  FieldRefLoop(getAllFields(form), FieldIdSet(getAllFields(form)))

(***************************************************************************)
(* ValidationRulesEngine                                                   *)
(***************************************************************************)
\* A ValidationError {path, code, message}; path and message are the sequences
\* of the parts the code interpolates.
Error(path, code, message) == [path |-> path, code |-> code, message |-> message]

\* The absence of an error (null).
NoError == Error(<<>>, "", <<>>)

\* isEmpty without trim(): a string of blanks counts as a value.
isEmpty_NoTrim(value) ==
  \/ value.t \in {"null", "undef"}
  \/ value.t = "str" /\ value.s = ""
  \/ value.t = "arr" /\ Len(value.a) = 0

isEmpty(value) ==
  \/ value.t \in {"null", "undef"}
  \/ value.t = "str" /\ IsBlank(value.s)
  \/ value.t = "arr" /\ Len(value.a) = 0

validateRequired(field, value, rule) ==
  IF isEmpty(value) THEN Error(<<field.id>>, "required", <<rule.message>>) ELSE NoError

\* validateRequiredIf that never looks at the outcome of its condition.
validateRequiredIf_Unconditional(field, value, rule, allData, today) ==
  IF ~Truthy(rule.condition) THEN NoError
  ELSE IF isEmpty(value) THEN Error(<<field.id>>, "requiredIf", <<rule.message>>)
       ELSE NoError

validateRequiredIf(field, value, rule, allData, today) ==
  IF ~Truthy(rule.condition) THEN NoError
  ELSE IF evaluate(rule.condition.text, allData, today) /\ isEmpty(value)
       THEN Error(<<field.id>>, "requiredIf", <<rule.message>>)
       ELSE NoError

\* new Date(a) < new Date(b): a comparison of the two getTime() values, false
\* when either date is invalid (NaN).
DateBefore(a, b) == DateOf(a).valid /\ DateOf(b).valid /\ DateOf(a).time < DateOf(b).time

\* validateMin with `numValue <= minValue`: the bound itself is refused.
validateMin_Exclusive(field, value, rule) ==
  IF isEmpty(value) THEN NoError
  ELSE IF field.type = "number"
            /\ (isNaN(value) \/ (~isNaN(rule.value) /\ ToNumber(value).n <= ToNumber(rule.value).n))
       THEN Error(<<field.id>>, "min", <<rule.message>>)
       ELSE NoError

validateMin(field, value, rule) ==
  IF isEmpty(value) THEN NoError
  ELSE IF field.type = "number"
            /\ (isNaN(value) \/ (~isNaN(rule.value) /\ ToNumber(value).n < ToNumber(rule.value).n))
       THEN Error(<<field.id>>, "min", <<rule.message>>)
       ELSE IF field.type = "date" /\ DateBefore(value, rule.value)
            THEN Error(<<field.id>>, "min", <<rule.message>>)
            ELSE NoError

validateMax(field, value, rule) ==
  IF isEmpty(value) THEN NoError
  ELSE IF field.type = "number"
            /\ (isNaN(value) \/ (~isNaN(rule.value) /\ ToNumber(value).n > ToNumber(rule.value).n))
       THEN Error(<<field.id>>, "max", <<rule.message>>)
       ELSE IF field.type = "date" /\ DateBefore(rule.value, value)
            THEN Error(<<field.id>>, "max", <<rule.message>>)
            ELSE NoError

\* The regular expressions of the model: digits only, and an unbalanced
\* parenthesis, for which new RegExp throws a SyntaxError.
DigitsPattern == "^[0-9]+$"
MalformedPattern == "("

RegExpThrows(pattern) == pattern = MalformedPattern

\* test() of one shared regular expression with the g flag: a successful test
\* leaves lastIndex at the end of the text and the next test fails.
RegExpTest_Sticky(pattern, text) ==
  IF call = "none" /\ pattern = DigitsPattern THEN text \in DOMAIN NumeralValue \ {"", " "}
  ELSE FALSE

\* new RegExp(pattern).test(text)
RegExpTest(pattern, text) ==
  IF pattern = DigitsPattern THEN text \in DOMAIN NumeralValue \ {"", " "} ELSE FALSE

\* `!rule.value`: undefined, null, "", 0, NaN and false are falsy.
Falsy(v) ==
  \/ v.t \in {"undef", "null", "nan"}
  \/ v.t = "str" /\ v.s = ""
  \/ v.t \in {"num", "bool"} /\ v.n = 0

validateRegex(field, value, rule) ==
  IF isEmpty(value) THEN NoError
  ELSE IF Falsy(rule.value) THEN NoError
  ELSE IF RegExpThrows(StringOf(rule.value)) THEN NoError
  ELSE IF ~RegExpTest(StringOf(rule.value), StringOf(value))
       THEN Error(<<field.id>>, "regex", <<rule.message>>)
       ELSE NoError

validateCrossField(field, value, rule, allData, today) ==
  IF ~Truthy(rule.condition) THEN NoError
  ELSE IF ~evaluate(rule.condition.text, allData, today)
       THEN Error(<<field.id>>, "cross_field", <<rule.message>>)
       ELSE NoError

validateRule(field, value, rule, allData, today) ==
  CASE rule.rule = "required" -> validateRequired(field, value, rule)
    [] rule.rule = "requiredIf" -> validateRequiredIf(field, value, rule, allData, today)
    [] rule.rule = "min" -> validateMin(field, value, rule)
    [] rule.rule = "max" -> validateMax(field, value, rule)
    [] rule.rule = "regex" -> validateRegex(field, value, rule)
    [] rule.rule = "cross_field" -> validateCrossField(field, value, rule, allData, today)
    [] OTHER -> NoError

RECURSIVE RulesLoop(_, _, _, _, _)
\* The loop that returns at the first failing rule.
RulesLoop_FirstOnly(field, value, rules, allData, today) ==
  IF rules = <<>> THEN <<>>
  ELSE IF validateRule(field, value, Head(rules), allData, today) # NoError
       THEN <<validateRule(field, value, Head(rules), allData, today)>>
       ELSE RulesLoop(field, value, Tail(rules), allData, today)

\* for (const rule of field.validation): push every error, go on to the next.
RulesLoop(field, value, rules, allData, today) ==
  IF rules = <<>> THEN <<>>
  ELSE LET error == validateRule(field, value, Head(rules), allData, today)
       IN  (IF error # NoError THEN <<error>> ELSE <<>>)
           \o RulesLoop(field, value, Tail(rules), allData, today)

validateField(field, value, allData, today) ==
  RulesLoop(field, value, field.validation, allData, today)

SeqHas(xs, x) == \E i \in 1..Len(xs) : xs[i] = x

\* The first item of the array that is no option, or "" when all are.
FirstInvalidOption(items, options) ==
  LET bad == {i \in 1..Len(items) : ~SeqHas(options, items[i])}
  IN  IF bad = {} THEN "" ELSE items[CHOOSE i \in bad : \A j \in bad : i <= j]

validateMultiselect(field, value) ==
  IF field.type # "multiselect" THEN NoError
  ELSE IF value.t # "arr"
       THEN Error(<<field.id>>, "invalid_type", <<"Multiselect field must be an array">>)
       ELSE IF field.options.present
                 /\ \E i \in 1..Len(value.a) : ~SeqHas(field.options.items, value.a[i])
            THEN Error(<<field.id>>, "invalid_option",
                       <<"Invalid option", FirstInvalidOption(value.a, field.options.items)>>)
            ELSE NoError

\* field.options.includes(value): only a string equals an option.
validateSingleSelect(field, value) ==
  IF field.type # "singleSelect" THEN NoError
  ELSE IF isEmpty(value) THEN NoError
  ELSE IF field.options.present /\ ~(value.t = "str" /\ SeqHas(field.options.items, value.s))
       THEN Error(<<field.id>>, "invalid_option", <<"Invalid option", StringOf(value)>>)
       ELSE NoError

RECURSIVE RuleRefErrors(_, _, _)
RuleRefErrors(refs, allFieldIds, fieldId) ==
  IF refs = <<>> THEN <<>>
  ELSE (IF Head(refs) \notin allFieldIds
        THEN <<Error(<<fieldId>>, "invalid_reference",
                     <<"Validation rule references non-existent field", Head(refs)>>)>>
        ELSE <<>>) \o RuleRefErrors(Tail(refs), allFieldIds, fieldId)

RECURSIVE RuleRefLoop(_, _, _)
RuleRefLoop(rules, allFieldIds, fieldId) ==
  IF rules = <<>> THEN <<>>
  ELSE (IF Truthy(Head(rules).condition)
        THEN RuleRefErrors(extractFieldReferences(Head(rules).condition.text),
                           allFieldIds, fieldId)
        ELSE <<>>) \o RuleRefLoop(Tail(rules), allFieldIds, fieldId)

validateRuleReferences(field, allFieldIds) ==
  RuleRefLoop(field.validation, allFieldIds, field.id)

(***************************************************************************)
(* FormsValidator                                                          *)
(***************************************************************************)
\* The decimal text of a 0-based array index in a Zod issue path.
IndexText(i) == CASE i = 1 -> "0" [] i = 2 -> "1" [] i = 3 -> "2" [] i = 4 -> "3" [] OTHER -> "n"

RECURSIVE ZodRules(_, _, _)
\* ValidationRuleSchema: rule is one of the enum, message has a character.
ZodRules(rules, i, path) ==
  IF i > Len(rules) THEN <<>>
  ELSE (IF rules[i].rule \notin RuleKinds
        THEN <<Error(path \o <<IndexText(i), "rule">>, "invalid_enum_value", <<"Invalid enum value">>)>>
        ELSE <<>>)
       \o (IF rules[i].message = ""
           THEN <<Error(path \o <<IndexText(i), "message">>, "too_small",
                        <<"String must contain at least 1 character(s)">>)>>
           ELSE <<>>)
       \o ZodRules(rules, i + 1, path)

RECURSIVE ZodFields(_, _, _)
\* FieldSchema: id has a character, type is one of the enum, the rules parse.
ZodFields(fields, i, path) ==
  IF i > Len(fields) THEN <<>>
  ELSE (IF fields[i].id = ""
        THEN <<Error(path \o <<IndexText(i), "id">>, "too_small",
                     <<"String must contain at least 1 character(s)">>)>>
        ELSE <<>>)
       \o (IF fields[i].type \notin FieldTypes
           THEN <<Error(path \o <<IndexText(i), "type">>, "invalid_enum_value", <<"Invalid enum value">>)>>
           ELSE <<>>)
       \o ZodRules(fields[i].validation, 1, path \o <<IndexText(i), "validation">>)
       \o ZodFields(fields, i + 1, path)

RECURSIVE ZodGroups(_, _, _)
\* GroupSchema: fields is an array of at least one field.
ZodGroups(groups, i, path) ==
  IF i > Len(groups) THEN <<>>
  ELSE (IF Len(groups[i].fields) < 1
        THEN <<Error(path \o <<IndexText(i), "fields">>, "too_small",
                     <<"Array must contain at least 1 element(s)">>)>>
        ELSE <<>>)
       \o ZodFields(groups[i].fields, 1, path \o <<IndexText(i), "fields">>)
       \o ZodGroups(groups, i + 1, path)

RECURSIVE ZodSections(_, _)
\* SectionSchema: fields and groups default to [] when absent.
ZodSections(sections, i) ==
  IF i > Len(sections) THEN <<>>
  ELSE ZodFields(sections[i].fields.items, 1, <<"sections", IndexText(i), "fields">>)
       \o ZodGroups(sections[i].groups.items, 1, <<"sections", IndexText(i), "groups">>)
       \o ZodSections(sections, i + 1)

\* FormDSLSchema.safeParse(definition), its issues mapped to errors.  The
\* parsed output (with the defaults filled in) is dropped.
validateZodSchema(definition) ==
  (IF Len(definition.sections) < 1
   THEN <<Error(<<"sections">>, "too_small", <<"Array must contain at least 1 element(s)">>)>>
   ELSE <<>>)
  \o ZodSections(definition.sections, 1)

\* The validator's private copy of getAllFields.
FormsValidator_getAllFields(form) == SectionFields(form.sections)

RECURSIVE UniquenessLoop(_, _, _)
\* The duplicates set, in insertion order.
UniquenessLoop(fields, fieldIds, duplicates) ==
  IF fields = <<>> THEN duplicates
  ELSE IF Head(fields).id \in fieldIds
       THEN UniquenessLoop(Tail(fields), fieldIds,
                           IF SeqHas(duplicates, Head(fields).id) THEN duplicates
                           ELSE Append(duplicates, Head(fields).id))
       ELSE UniquenessLoop(Tail(fields), fieldIds \cup {Head(fields).id}, duplicates)

validateFieldIdUniqueness(form) ==
  LET duplicates == UniquenessLoop(FormsValidator_getAllFields(form), {}, <<>>)
  IN  [i \in 1..Len(duplicates) |->
         Error(<<"field", duplicates[i]>>, "duplicate_field_id",
               <<"Field ID", duplicates[i], "is used multiple times">>)]

RECURSIVE OptionsLoop(_)
OptionsLoop(fields) ==
  IF fields = <<>> THEN <<>>
  ELSE (IF Head(fields).type \in {"singleSelect", "multiselect"}
             /\ (~Head(fields).options.present \/ Len(Head(fields).options.items) = 0)
        THEN <<Error(<<"field", Head(fields).id>>, "missing_options",
                     <<"Field", Head(fields).id, "must have options defined">>)>>
        ELSE <<>>) \o OptionsLoop(Tail(fields))

validateFieldOptions(form) == OptionsLoop(FormsValidator_getAllFields(form))

validateBranching(form) ==
  LET refErrors == validateFieldReferences(form)
  IN  [i \in 1..Len(refErrors) |->
         Error(<<"field", refErrors[i].fieldId, "branching">>, "invalid_field_reference",
               <<"Field", refErrors[i].fieldId, "references non-existent field",
                 refErrors[i].invalidRef>>)]

validateRuleCompatibility(field, ruleType) ==
  LET allowedTypes == CASE ruleType \in {"min", "max"} -> {"number", "date"}
                        [] ruleType = "regex" -> {"text", "textarea"}
                        [] OTHER -> FieldTypes
  IN  IF ruleType \in {"min", "max", "regex"} /\ field.type \notin allowedTypes
      THEN Error(<<"field", field.id, "validation">>, "incompatible_rule",
                 <<"Validation rule", ruleType, "cannot be used with field type", field.type>>)
      ELSE NoError

RECURSIVE CompatLoop(_, _)
CompatLoop(field, rules) ==
  IF rules = <<>> THEN <<>>
  ELSE (IF validateRuleCompatibility(field, Head(rules).rule) # NoError
        THEN <<validateRuleCompatibility(field, Head(rules).rule)>> ELSE <<>>)
       \o CompatLoop(field, Tail(rules))

RECURSIVE ValidationRulesLoop(_, _)
ValidationRulesLoop(fields, allFieldIds) ==
  IF fields = <<>> THEN <<>>
  ELSE validateRuleReferences(Head(fields), allFieldIds)
       \o CompatLoop(Head(fields), Head(fields).validation)
       \o ValidationRulesLoop(Tail(fields), allFieldIds)

validateValidationRules(form) ==
  ValidationRulesLoop(FormsValidator_getAllFields(form),
                      FieldIdSet(FormsValidator_getAllFields(form)))

\* The pipeline without its sixth step.
circularErrors_None(form) == <<>>

\* The validator's detectCircularDependencies: one error for every cycle.
circularErrors(form) ==
  LET cycles == detectCircularDependencies(form)
  IN  [i \in 1..Len(cycles) |->
         Error(<<"form", "branching">>, "circular_dependency",
               <<"Circular dependency detected">> \o cycles[i])]

\* The outcome of a call: the error list it returned, or threw = TRUE when it
\* ended with an exception (and returned nothing).
Returned(errors) == [threw |-> FALSE, errors |-> errors]
Threw == [threw |-> TRUE, errors |-> <<>>]

validateFormDefinition(definition) ==
  LET zodErrors == validateZodSchema(definition)
  IN  IF Len(zodErrors) > 0 THEN Returned(zodErrors)
      ELSE IF ~Iterable(definition) THEN Threw
      ELSE Returned(validateFieldIdUniqueness(definition)
                    \o validateFieldOptions(definition)
                    \o validateBranching(definition)
                    \o validateValidationRules(definition)
                    \o circularErrors(definition))

(***************************************************************************)
(* SubmissionValidator                                                     *)
(***************************************************************************)
\* The keys an answer map may hold, in the order Object.keys lists them.
KeyOrder == <<"a", "b", "c", "x">>

ObjectKeys(data) == SelectSeq(KeyOrder, LAMBDA k : k \in DOMAIN data)

\* submissionData[fieldId]
Answer(data, fieldId) == IF fieldId \in DOMAIN data THEN data[fieldId] ELSE Undef

\* allFields.find(f => f.id === fieldId), for an identifier of the form.
FindField(allFields, fieldId) ==
  allFields[CHOOSE i \in 1..Len(allFields) :
              allFields[i].id = fieldId /\ \A j \in 1..(i - 1) : allFields[j].id # fieldId]

\* fieldValue === undefined || fieldValue === null || fieldValue === ''
Missing(value) == value.t \in {"undef", "null"} \/ (value.t = "str" /\ value.s = "")

RECURSIVE InvalidFieldLoop(_, _)
\* 1. every submitted key is a visible field
InvalidFieldLoop(submittedFieldIds, visibleFieldIds) ==
  IF submittedFieldIds = <<>> THEN <<>>
  ELSE (IF ~SeqHas(visibleFieldIds, Head(submittedFieldIds))
        THEN <<Error(<<"field", Head(submittedFieldIds)>>, "invalid_field",
                     <<"Field", Head(submittedFieldIds), "is not visible or does not exist">>)>>
        ELSE <<>>) \o InvalidFieldLoop(Tail(submittedFieldIds), visibleFieldIds)

RECURSIVE RequiredLoop(_, _, _)
\* 2. every visible field with a required rule has a value
RequiredLoop(visibleFieldIds, allFields, data) ==
  IF visibleFieldIds = <<>> THEN <<>>
  ELSE LET field == FindField(allFields, Head(visibleFieldIds))
           isRequired == \E i \in 1..Len(field.validation) : field.validation[i].rule = "required"
       IN  (IF isRequired /\ Missing(Answer(data, field.id))
            THEN <<Error(<<"field", field.id>>, "required_field", <<"Field", field.id, "is required">>)>>
            ELSE <<>>) \o RequiredLoop(Tail(visibleFieldIds), allFields, data)

RECURSIVE SelectLoop(_, _, _)
\* 3. the values of select fields are options
SelectLoop(visibleFieldIds, allFields, data) ==
  IF visibleFieldIds = <<>> THEN <<>>
  ELSE LET field == FindField(allFields, Head(visibleFieldIds))
           fieldValue == Answer(data, field.id)
           found == IF Missing(fieldValue) THEN NoError
                    ELSE IF field.type = "singleSelect" THEN validateSingleSelect(field, fieldValue)
                    ELSE IF field.type = "multiselect" THEN validateMultiselect(field, fieldValue)
                    ELSE NoError
       IN  (IF found # NoError THEN <<Error(<<"field", field.id>>, found.code, found.message)>>
            ELSE <<>>) \o SelectLoop(Tail(visibleFieldIds), allFields, data)

RECURSIVE FieldRulesLoop(_, _, _, _)
RECURSIVE AllFieldRules(_, _, _)
AllFieldRules(fields, data, today) ==
  IF fields = <<>> THEN <<>>
  ELSE LET fieldErrors == validateField(Head(fields), Answer(data, Head(fields).id), data, today)
       IN  [i \in 1..Len(fieldErrors) |->
              Error(<<"field", Head(fields).id>>, fieldErrors[i].code, fieldErrors[i].message)]
           \o AllFieldRules(Tail(fields), data, today)

\* Step 4 over every field of the form instead of the visible ones.
FieldRulesLoop_AllFields(visibleFieldIds, allFields, data, today) ==
  AllFieldRules(allFields, data, today)

\* 4. every visible field passes its validation rules
FieldRulesLoop(visibleFieldIds, allFields, data, today) ==
  IF visibleFieldIds = <<>> THEN <<>>
  ELSE LET field == FindField(allFields, Head(visibleFieldIds))
           fieldErrors == validateField(field, Answer(data, field.id), data, today)
       IN  [i \in 1..Len(fieldErrors) |->
              Error(<<"field", field.id>>, fieldErrors[i].code, fieldErrors[i].message)]
           \o FieldRulesLoop(Tail(visibleFieldIds), allFields, data, today)

\* Every identifier of the visibility map, visible or not.
VisibleFieldIds_All(visibilityMap) == visibilityMap.keys

\* The identifiers the visibility map maps to true, in the map's order.
VisibleFieldIds(visibilityMap) ==
  LET idx == SelectSeq([i \in 1..Len(visibilityMap.keys) |-> i], LAMBDA i : visibilityMap.val[i])
  IN  [i \in 1..Len(idx) |-> visibilityMap.keys[idx[i]]]

\* form is the form definition of the stored form (form.definition).
validateSubmissionData(submissionData, form, today) ==
  IF ~Iterable(form)
  THEN [isValid |-> FALSE,
        errors |-> <<Error(<<"submission">>, "validation_error", <<"Validation failed">>)>>]
  ELSE LET allFields == getAllFields(form)
           visibilityMap == resolveVisibility(form, submissionData, today)
           visibleFieldIds == VisibleFieldIds(visibilityMap)
           errors == InvalidFieldLoop(ObjectKeys(submissionData), visibleFieldIds)
                     \o RequiredLoop(visibleFieldIds, allFields, submissionData)
                     \o SelectLoop(visibleFieldIds, allFields, submissionData)
                     \o FieldRulesLoop(visibleFieldIds, allFields, submissionData, today)
       IN  [isValid |-> Len(errors) = 0, errors |-> errors]

(***************************************************************************)
(* The inputs of the model                                                 *)
(***************************************************************************)
\* Longest field list of a definition handed to the definition validator.
MaxDefFields == 3

\* Longest field list of a published form that submissions are checked against.
MaxSubFields == 3

YesNo == Items(<<"Yes", "No">>)

\* All sequences over S of length at most n.
RECURSIVE SeqsUpTo(_, _)
SeqsUpTo(S, n) ==
  IF n = 0 THEN {<<>>}
  ELSE LET shorter == SeqsUpTo(S, n - 1)
       IN  shorter \cup {Append(xs, x) : xs \in {ys \in shorter : Len(ys) = n - 1}, x \in S}

\* All but the last field, and the last field alone (none of an empty list).
Front(fields) == SubSeq(fields, 1, Len(fields) - 1)
Last(fields) == IF fields = <<>> THEN <<>> ELSE <<fields[Len(fields)]>>

\* Fields an author may write: references forward, backward, to the field
\* itself and to no field, in showIf, hideIf and rule conditions; a type
\* outside the enum; a select without options; a rule its type does not allow.
DefFields ==
  { Field("a", "text", NoItems, FALSE, NoText, NoText, <<>>),
    Field("a", "text", NoItems, TRUE, Text(<<"b", "==", "'Yes'">>), NoText, <<>>),
    Field("b", "text", NoItems, TRUE, Text(<<"a", "==", "'Yes'">>), NoText, <<>>),
    Field("b", "text", NoItems, TRUE, NoText, Text(<<"x", "==", "'Yes'">>), <<>>),
    Field("b", "number", NoItems, FALSE, NoText, NoText,
          <<Rule("requiredIf", Undef, Text(<<"c", ">", "5">>), "b is required")>>),
    Field("b", "text", NoItems, TRUE, Text(<<"c", "==", "'Yes'">>), Text(<<"a", "==", "'No'">>), <<>>),
    Field("c", "text", NoItems, TRUE, Text(<<"c", "==", "'Yes'">>), NoText, <<>>),
    Field("c", "text", NoItems, FALSE, NoText, NoText,
          <<Rule("cross_field", Undef, Text(<<"c", "!=", "x">>), "c differs from x"),
            Rule("min", Num(5), NoText, "c is at least 5")>>),
    Field("c", "singleSelect", NoItems, TRUE, Text(<<"a", "==", "'Yes'">>), NoText, <<>>),
    Field("a", "checkbox", NoItems, TRUE, Text(<<"x", "==", "1">>), NoText, <<>>) }

\* The ways the fields are laid out in the request body: all in one section;
\* the last one in a group; the groups property left out; two sections.
Layouts(fields) ==
  { [sections |-> <<Section("s1", Items(fields), Items(<<>>))>>],
    [sections |-> <<Section("s1", Items(Front(fields)), Items(<<Group("g1", Last(fields))>>))>>],
    [sections |-> <<Section("s1", Items(fields), NoItems)>>],
    [sections |-> IF fields = <<>> THEN <<>>
                  ELSE <<Section("s1", Items(<<Head(fields)>>), Items(<<>>)),
                         Section("s2", Items(Tail(fields)), Items(<<>>))>>] }

Definitions == UNION {Layouts(fields) : fields \in SeqsUpTo(DefFields, MaxDefFields)}

\* Fields of forms that patients answer.
SubFields ==
  { Field("a", "singleSelect", YesNo, FALSE, NoText, NoText,
          <<Rule("required", Undef, NoText, "a is required")>>),
    Field("a", "singleSelect", YesNo, TRUE, NoText, NoText, <<>>),
    Field("b", "number", NoItems, TRUE, Text(<<"a", "==", "'Yes'">>), NoText,
          <<Rule("requiredIf", Undef, Text(<<"a", "==", "'Yes'">>), "b is required for Yes"),
            Rule("min", Num(5), NoText, "b is at least 5"),
            Rule("max", Num(10), NoText, "b is at most 10")>>),
    Field("b", "number", NoItems, TRUE, Text(<<"a", "==", "'Yes'">>), Text(<<"c", "==", "'Yes'">>),
          <<Rule("required", Undef, NoText, "b is required")>>),
    Field("b", "number", NoItems, TRUE, NoText, Text(<<"a", "==", "'No'">>),
          <<Rule("min", Num(5), NoText, "b is at least 5"),
            Rule("cross_field", Undef, Text(<<"b", "<", "c">>), "b is below c")>>),
    Field("b", "number", NoItems, TRUE, Text(<<>>), NoText,
          <<Rule("required", Undef, NoText, "b is required")>>),
    Field("c", "text", NoItems, FALSE, NoText, NoText,
          <<Rule("required", Undef, NoText, "c is required"),
            Rule("regex", Str(DigitsPattern), NoText, "c is made of digits")>>),
    Field("c", "text", NoItems, TRUE, Text(<<"b", ">", "5">>), NoText,
          <<Rule("required", Undef, NoText, "c is required")>>) }

\* A form passes the definition validator before it is stored and published.
Publishable(definition) == validateFormDefinition(definition) = Returned(<<>>)

PublishedForms ==
  {d \in UNION {{ [sections |-> <<Section("s1", Items(fields), Items(<<>>))>>],
                  [sections |-> <<Section("s1", Items(Front(fields)),
                                          Items(<<Group("g1", Last(fields))>>))>>] }
                : fields \in SeqsUpTo(SubFields, MaxSubFields)} : Publishable(d)}

\* The answer maps: every key absent or present with one of its values.
AnswerValues ==
  [k \in {"a", "b", "c", "x"} |->
     CASE k = "a" -> {Str("Yes"), Str("No"), Str("5")}
       [] k = "b" -> {Num(1), Num(5), Num(65)}
       [] k = "c" -> {Str("Yes"), Str("5"), Str("")}
       [] k = "x" -> {Str("Yes")}]

AnswerMaps ==
  UNION {{data \in [keys -> UNION {AnswerValues[k] : k \in keys}] :
            \A k \in keys : data[k] \in AnswerValues[k]} : keys \in SUBSET {"a", "b", "c", "x"}}

(***************************************************************************)
(* State                                                                   *)
(***************************************************************************)
VARIABLES
  form,      \* the form definition handed to the engine
  answers,   \* the answer map handed to the engine
  today,     \* the current day, which today() reads
  result,    \* what the last call of the engine returned
  store,     \* the forms collection: the stored Form documents
  nextId,    \* the _id the next inserted document gets
  reqs,      \* the service calls in flight, one per request slot
  submissions \* the submissions collection: the stored Submission documents

vars == <<form, answers, today, call, result, store, nextId, reqs, submissions>>
engine == <<form, answers, today, call, result>>
service == <<store, nextId, reqs, submissions>>

\* Most documents ever inserted, and most service calls in flight at once.
MaxForms == 3
MaxRequests == 2

Slots == 1..MaxRequests

\* A request slot with no call in flight.  A call in flight holds its
\* arguments and the locals it has read so far.
Idle == [op |-> "idle", pc |-> "", formId |-> "", id |-> 0, definition |-> [sections |-> <<>>],
         version |-> 0, userId |-> "", hasData |-> FALSE, data |-> [k \in {} |-> Undef],
         status |-> "", dataToValidate |-> [k \in {} |-> Undef]]

NoCalls == [r \in Slots |-> Idle]

NoForm == [sections |-> <<>>]
NoAnswers == [k \in {} |-> Undef]

(***************************************************************************)
(* The definition validator applied to the definitions an author may send  *)
(***************************************************************************)
InitDef ==
  /\ form \in Definitions
  /\ answers = NoAnswers
  /\ today = "2024-06-01"
  /\ call = "none"
  /\ result = <<>>
  /\ store = {}
  /\ nextId = 1
  /\ reqs = NoCalls
  /\ submissions = {}

CallValidateFormDefinition ==
  /\ call = "none"
  /\ call' = "validateFormDefinition"
  /\ result' = validateFormDefinition(form)
  /\ UNCHANGED <<form, answers, today>>
  /\ UNCHANGED service

\* The cycle detector runs inside the pipeline, after the shape check and the
\* first flattening of the fields have passed.
CallDetectCircularDependencies ==
  /\ call = "none"
  /\ validateZodSchema(form) = <<>>
  /\ Iterable(form)
  /\ call' = "detectCircularDependencies"
  /\ result' = detectCircularDependencies(form)
  /\ UNCHANGED <<form, answers, today>>
  /\ UNCHANGED service

\* getEvaluationOrder on a definition whose sections can be flattened; on any
\* other definition getAllFields throws before an order is built.
CallGetEvaluationOrder ==
  /\ call = "none"
  /\ Iterable(form)
  /\ call' = "getEvaluationOrder"
  /\ result' = getEvaluationOrder(form)
  /\ UNCHANGED <<form, answers, today>>
  /\ UNCHANGED service

NextDef ==
  \/ CallValidateFormDefinition
  \/ CallDetectCircularDependencies
  \/ CallGetEvaluationOrder

SpecDef == InitDef /\ [][NextDef]_vars

(***************************************************************************)
(* The submission checks applied to published forms and answer maps        *)
(***************************************************************************)
InitSub ==
  /\ form \in PublishedForms
  /\ answers \in AnswerMaps
  /\ today = "2024-06-01"
  /\ call = "none"
  /\ result = <<>>
  /\ store = {}
  /\ nextId = 1
  /\ reqs = NoCalls
  /\ submissions = {}

CallResolveVisibility ==
  /\ call = "none"
  /\ call' = "resolveVisibility"
  /\ result' = resolveVisibility(form, answers, today)
  /\ UNCHANGED <<form, answers, today>>
  /\ UNCHANGED service

CallValidateSubmissionData ==
  /\ call = "none"
  /\ call' = "validateSubmissionData"
  /\ result' = validateSubmissionData(answers, form, today)
  /\ UNCHANGED <<form, answers, today>>
  /\ UNCHANGED service

\* validateField as validateSubmissionData calls it: a field of the form, the
\* answer stored under it, the whole answer map.
CallValidateField ==
  /\ call = "none"
  /\ \E i \in 1..Len(getAllFields(form)) :
       LET field == getAllFields(form)[i]
       IN  result' = [field |-> field,
                      errors |-> validateField(field, Answer(answers, field.id), answers, today)]
  /\ call' = "validateField"
  /\ UNCHANGED <<form, answers, today>>
  /\ UNCHANGED service

NextSub == CallResolveVisibility \/ CallValidateSubmissionData \/ CallValidateField

SpecSub == InitSub /\ [][NextSub]_vars

(***************************************************************************)
(* The evaluator, the resolver and the rules engine called twice with the  *)
(* same arguments, the second time on the same day or on a later one       *)
(***************************************************************************)
MaxEvalFields == 2

\* Fields whose rules cover the rule kinds, with a date compared with today().
EvalFields ==
  { Field("a", "singleSelect", YesNo, FALSE, NoText, NoText,
          <<Rule("required", Undef, NoText, "a is required")>>),
    Field("b", "number", NoItems, TRUE, Text(<<"a", "==", "'Yes'">>), NoText,
          <<Rule("requiredIf", Undef, Text(<<"a", "==", "'Yes'">>), "b is required for Yes"),
            Rule("min", Num(5), NoText, "b is at least 5"),
            Rule("max", Num(10), NoText, "b is at most 10")>>),
    Field("b", "text", NoItems, TRUE, Text(<<"c", "<", "today()">>), NoText,
          <<Rule("requiredIf", Undef, Text(<<"c", "<", "today()">>), "b is required after c")>>),
    Field("n", "number", NoItems, FALSE, NoText, NoText,
          <<Rule("min", Num(0), NoText, "n is at least 0"),
            Rule("max", Num(120), NoText, "n is at most 120")>>),
    Field("c", "text", NoItems, FALSE, NoText, NoText,
          <<Rule("required", Undef, NoText, "c is required"),
            Rule("regex", Str(DigitsPattern), NoText, "c is made of digits")>>),
    Field("c", "date", NoItems, FALSE, NoText, NoText,
          <<Rule("cross_field", Undef, Text(<<"c", "<=", "today()">>), "c is not in the future")>>) }

EvalForms ==
  {d \in {[sections |-> <<Section("s1", Items(fields), Items(<<>>))>>]
            : fields \in SeqsUpTo(EvalFields, MaxEvalFields)} : Publishable(d)}

\* The answers stored under each key; an answer may be stored under the key
\* hasOwnProperty as under any other.
EvalAnswerValues ==
  [k \in {"a", "b", "c", "n", "hasOwnProperty"} |->
     CASE k = "a" -> {Str("Yes"), Str("No")}
       [] k = "b" -> {Num(1), Num(5), Num(65)}
       [] k = "c" -> {Str("5"), Str("Yes"), Str(""), Str(" "), Null, Arr(<<>>), Str("2024-06-01")}
       [] k = "n" -> {Num(-5), Num(0), Num(50), Num(120), Num(150)}
       [] k = "hasOwnProperty" -> {Str("Yes")}]

\* The answer maps sent for a form: answers for some of its fields.
EvalAnswerMaps(definition) ==
  UNION {{data \in [keys -> UNION {EvalAnswerValues[k] : k \in keys}] :
            \A k \in keys : data[k] \in EvalAnswerValues[k]}
         : keys \in SUBSET (FieldIdSet(getAllFields(definition)) \cup {"hasOwnProperty"})}

\* Expressions handed to evaluate: well formed ones, one without an operator,
\* the empty one, and ones that split into three or four operands.
EvalExpressions ==
  { <<"a", "==", "'Yes'">>, <<"a", "==", "b">>, <<"a", "!=", "Yes">>, <<"b", ">=", "5">>,
    <<"c", "<", "today()">>, <<"a", "==">>, <<"a", "<=", "b", "==", "c">>,
    <<"a">>, <<>>, <<"a", "==", "b", "==", "c">>, <<"a", ">", "b", ">=", "c">>,
    <<"a", "=", "b", "==", "c">> }

InitEval ==
  /\ form \in EvalForms
  /\ answers \in EvalAnswerMaps(form)
  /\ today \in Days
  /\ call = "none"
  /\ result = <<>>
  /\ store = {}
  /\ nextId = 1
  /\ reqs = NoCalls
  /\ submissions = {}

CallEvaluate ==
  /\ call = "none"
  /\ \E expression \in EvalExpressions :
       result' = [expression |-> expression,
                  outcome |-> evaluateOutcome(expression, answers, today)]
  /\ call' = "evaluate"
  /\ UNCHANGED <<form, answers, today>>
  /\ UNCHANGED service

FirstCalls == {"evaluate", "resolveVisibility", "validateField"}

\* The day that follows; time passes between two calls.
NextDay(d) == CASE d = "2020-01-01" -> "2024-06-01" [] OTHER -> "2030-01-01"

Midnight ==
  /\ call \in FirstCalls
  /\ today # "2030-01-01"
  /\ today' = NextDay(today)
  /\ call' = CASE call = "evaluate" -> "evaluate, a day ago"
               [] call = "resolveVisibility" -> "resolveVisibility, a day ago"
               [] call = "validateField" -> "validateField, a day ago"
  /\ UNCHANGED <<form, answers, result>>
  /\ UNCHANGED service

\* The same operation called a second time with the arguments of the first.
CallAgain ==
  /\ call \in FirstCalls \cup {"evaluate, a day ago", "resolveVisibility, a day ago",
                               "validateField, a day ago"}
  /\ result' =
       [first |-> result,
        second |->
          CASE call \in {"evaluate", "evaluate, a day ago"} ->
                 [expression |-> result.expression,
                  outcome |-> evaluateOutcome(result.expression, answers, today)]
            [] call \in {"validateField", "validateField, a day ago"} ->
                 [field |-> result.field,
                  errors |-> validateField(result.field, Answer(answers, result.field.id),
                                           answers, today)]
            [] OTHER -> resolveVisibility(form, answers, today)]
  /\ call' = IF call \in FirstCalls THEN "again" ELSE "again, a day later"
  /\ UNCHANGED <<form, answers, today>>
  /\ UNCHANGED service

NextEval ==
  \/ CallEvaluate
  \/ CallResolveVisibility
  \/ CallValidateField
  \/ Midnight
  \/ CallAgain

SpecEval == InitEval /\ [][NextEval]_vars

(***************************************************************************)
(* FormsService and FormsRepository.  Every await of a repository call is  *)
(* one step: the read or write of the collection together with the         *)
(* synchronous code that follows it up to the next repository call.  Calls *)
(* in different request slots interleave between their steps.              *)
(***************************************************************************)
PlainA == Field("a", "text", NoItems, FALSE, NoText, NoText, <<>>)
AShowIfB == Field("a", "text", NoItems, TRUE, Text(<<"b", "==", "'Yes'">>), NoText, <<>>)
BShowIfA == Field("b", "text", NoItems, TRUE, Text(<<"a", "==", "'Yes'">>), NoText, <<>>)
BHideIfX == Field("b", "text", NoItems, TRUE, NoText, Text(<<"x", "==", "'Yes'">>), <<>>)

\* The definitions admins send: two that validate, one with a cycle, one with
\* a reference to no field, one that leaves the groups property out.
SentDefinitions ==
  { [sections |-> <<Section("s1", Items(<<PlainA>>), Items(<<>>))>>],
    [sections |-> <<Section("s1", Items(<<PlainA>>), Items(<<Group("g1", <<BShowIfA>>)>>))>>],
    [sections |-> <<Section("s1", Items(<<AShowIfB, BShowIfA>>), Items(<<>>))>>],
    [sections |-> <<Section("s1", Items(<<PlainA, BHideIfX>>), Items(<<>>))>>],
    [sections |-> <<Section("s1", Items(<<PlainA>>), NoItems)>>] }

FormIds == {"f1"}

\* A stored Form document.
Form(id, formId, version, status, definition) ==
  [id |-> id, formId |-> formId, version |-> version, status |-> status,
   definition |-> definition]

InitService ==
  /\ store = {}
  /\ nextId = 1
  /\ reqs = NoCalls
  /\ submissions = {}

\* The documents a find with `order: { version: 'DESC' }, take: 1` may return.
Latest(docs) == {f \in docs : \A g \in docs : g.version <= f.version}

WithStatus(formId, status) == {f \in store : f.formId = formId /\ f.status = status}

\* repository.update(id, formData): the document with this _id, if there is
\* one, gets the new properties.
Updated(id, property, value) ==
  {IF f.id = id THEN [f EXCEPT ![property] = value] ELSE f : f \in store}

Stored(id) == \E f \in store : f.id = id

\* The call in slot r ends: it returned or it threw.
Ends(r) == reqs' = [reqs EXCEPT ![r] = Idle]

Goes(r, call_) == reqs' = [reqs EXCEPT ![r] = call_]

Creating == Cardinality({r \in Slots : reqs[r].op = "createDraft"})

\* validationErrors.length > 0, or the validator threw: createDraft and
\* updateDraft store nothing.
Refused(definition) ==
  validateFormDefinition(definition).threw \/ Len(validateFormDefinition(definition).errors) > 0

\* createDraft, up to `await this.repository.findByFormId(formId)`.
CreateDraftFindLatestDraft(r, formId, definition) ==
  /\ reqs[r].op = "idle"
  /\ nextId + Creating <= MaxForms
  /\ IF WithStatus(formId, "draft") # {} \/ Refused(definition)
     THEN Ends(r)
     ELSE Goes(r, [Idle EXCEPT !.op = "createDraft", !.pc = "findByFormId",
                               !.formId = formId, !.definition = definition])
  /\ UNCHANGED <<store, nextId>>
  /\ UNCHANGED <<engine, submissions>>

\* const allVersions = await this.repository.findByFormId(formId), and the
\* version number computed from it.
CreateDraftFindByFormId(r) ==
  /\ reqs[r].op = "createDraft" /\ reqs[r].pc = "findByFormId"
  /\ LET allVersions == {f \in store : f.formId = reqs[r].formId}
         latestVersion == IF allVersions = {} THEN 0
                          ELSE (CHOOSE f \in Latest(allVersions) : TRUE).version
     IN  Goes(r, [reqs[r] EXCEPT !.pc = "create", !.version = latestVersion + 1])
  /\ UNCHANGED <<store, nextId>>
  /\ UNCHANGED <<engine, submissions>>

\* await this.repository.create({...status: 'draft', definition...})
CreateDraftCreate(r) ==
  /\ reqs[r].op = "createDraft" /\ reqs[r].pc = "create"
  /\ store' = store \cup {Form(nextId, reqs[r].formId, reqs[r].version, "draft",
                               reqs[r].definition)}
  /\ nextId' = nextId + 1
  /\ Ends(r)
  /\ UNCHANGED <<engine, submissions>>

\* updateDraft, up to `await this.repository.update(id, ...)`.
UpdateDraftFindById(r, id, definition) ==
  /\ reqs[r].op = "idle"
  /\ IF ~Stored(id) \/ (\E f \in store : f.id = id /\ f.status # "draft") \/ Refused(definition)
     THEN Ends(r)
     ELSE Goes(r, [Idle EXCEPT !.op = "updateDraft", !.pc = "update", !.id = id,
                               !.definition = definition])
  /\ UNCHANGED <<store, nextId>>
  /\ UNCHANGED <<engine, submissions>>

\* await this.repository.update(id, { definition, ... })
UpdateDraftUpdate(r) ==
  /\ reqs[r].op = "updateDraft" /\ reqs[r].pc = "update"
  /\ store' = Updated(reqs[r].id, "definition", reqs[r].definition)
  /\ Ends(r)
  /\ UNCHANGED nextId
  /\ UNCHANGED <<engine, submissions>>

\* publish, up to `await this.repository.findLatestPublished(formId)`.
\* findDraftByFormId is a findOne with no order: any draft of the formId.
PublishFindDraft(r, formId) ==
  /\ reqs[r].op = "idle"
  /\ IF WithStatus(formId, "draft") = {}
     THEN Ends(r)
     ELSE \E draft \in WithStatus(formId, "draft") :
            Goes(r, [Idle EXCEPT !.op = "publish", !.pc = "findLatestPublished",
                                 !.formId = formId, !.id = draft.id])
  /\ UNCHANGED <<store, nextId>>
  /\ UNCHANGED <<engine, submissions>>

\* const currentPublished = await this.repository.findLatestPublished(formId)
PublishFindLatestPublished(r) ==
  /\ reqs[r].op = "publish" /\ reqs[r].pc = "findLatestPublished"
  /\ IF WithStatus(reqs[r].formId, "published") # {}
     THEN Goes(r, [reqs[r] EXCEPT !.pc = "archive"])
     ELSE Goes(r, [reqs[r] EXCEPT !.pc = "publish"])
  /\ UNCHANGED <<store, nextId>>
  /\ UNCHANGED <<engine, submissions>>

\* archive(formId) called on its own, up to its repository.update.
ArchiveFindLatestPublished(r, formId) ==
  /\ reqs[r].op = "idle"
  /\ IF WithStatus(formId, "published") = {}
     THEN Ends(r)
     ELSE \E published \in Latest(WithStatus(formId, "published")) :
            Goes(r, [Idle EXCEPT !.op = "archive", !.pc = "archiveUpdate",
                                 !.formId = formId, !.version = published.id])
  /\ UNCHANGED <<store, nextId>>
  /\ UNCHANGED <<engine, submissions>>

\* archive(formId) called by publish: it reads the published version again
\* and throws, ending publish, when there is none any more.
PublishArchiveFind(r) ==
  /\ reqs[r].op = "publish" /\ reqs[r].pc = "archive"
  /\ IF WithStatus(reqs[r].formId, "published") = {}
     THEN Ends(r)
     ELSE \E published \in Latest(WithStatus(reqs[r].formId, "published")) :
            Goes(r, [reqs[r] EXCEPT !.pc = "archiveUpdate", !.version = published.id])
  /\ UNCHANGED <<store, nextId>>
  /\ UNCHANGED <<engine, submissions>>

\* await this.repository.update(published._id, { status: 'archived' }); the
\* _id of the document read is kept in the slot's version property.
ArchiveUpdate(r) ==
  /\ reqs[r].op \in {"publish", "archive"} /\ reqs[r].pc = "archiveUpdate"
  /\ store' = Updated(reqs[r].version, "status", "archived")
  /\ IF reqs[r].op = "publish" /\ Stored(reqs[r].version)
     THEN Goes(r, [reqs[r] EXCEPT !.pc = "publish"])
     ELSE Ends(r)
  /\ UNCHANGED nextId
  /\ UNCHANGED <<engine, submissions>>

\* await this.repository.update(draft._id, { status: 'published', ... })
PublishUpdate(r) ==
  /\ reqs[r].op = "publish" /\ reqs[r].pc = "publish"
  /\ store' = Updated(reqs[r].id, "status", "published")
  /\ Ends(r)
  /\ UNCHANGED nextId
  /\ UNCHANGED <<engine, submissions>>

\* deleteDraft, up to `await this.repository.delete(id)`.
DeleteDraftFindById(r, id) ==
  /\ reqs[r].op = "idle"
  /\ IF ~Stored(id) \/ (\E f \in store : f.id = id /\ f.status # "draft")
     THEN Ends(r)
     ELSE Goes(r, [Idle EXCEPT !.op = "deleteDraft", !.pc = "delete", !.id = id])
  /\ UNCHANGED <<store, nextId>>
  /\ UNCHANGED <<engine, submissions>>

\* await this.repository.delete(id)
DeleteDraftDelete(r) ==
  /\ reqs[r].op = "deleteDraft" /\ reqs[r].pc = "delete"
  /\ store' = {f \in store : f.id # reqs[r].id}
  /\ Ends(r)
  /\ UNCHANGED nextId
  /\ UNCHANGED <<engine, submissions>>

Init ==
  /\ form = NoForm
  /\ answers = NoAnswers
  /\ today = "2024-06-01"
  /\ call = "none"
  /\ result = <<>>
  /\ InitService

Next ==
  \/ \E r \in Slots, formId \in FormIds, definition \in SentDefinitions :
       CreateDraftFindLatestDraft(r, formId, definition)
  \/ \E r \in Slots : CreateDraftFindByFormId(r)
  \/ \E r \in Slots : CreateDraftCreate(r)
  \/ \E r \in Slots, id \in 1..MaxForms, definition \in SentDefinitions :
       UpdateDraftFindById(r, id, definition)
  \/ \E r \in Slots : UpdateDraftUpdate(r)
  \/ \E r \in Slots, formId \in FormIds : PublishFindDraft(r, formId)
  \/ \E r \in Slots : PublishFindLatestPublished(r)
  \/ \E r \in Slots : PublishArchiveFind(r)
  \/ \E r \in Slots, formId \in FormIds : ArchiveFindLatestPublished(r, formId)
  \/ \E r \in Slots : ArchiveUpdate(r)
  \/ \E r \in Slots : PublishUpdate(r)
  \/ \E r \in Slots, id \in 1..MaxForms : DeleteDraftFindById(r, id)
  \/ \E r \in Slots : DeleteDraftDelete(r)

Spec == Init /\ [][Next]_vars

(***************************************************************************)
(* SubmissionsService and SubmissionsRepository, next to the publishing of *)
(* a new version of the form.  As for the forms, every await of a          *)
(* repository call is one step, and calls in different slots interleave.   *)
(***************************************************************************)
RequiredA ==
  Field("a", "text", NoItems, FALSE, NoText, NoText,
        <<Rule("required", Undef, NoText, "a is required")>>)

\* The forms collection when the patients start: version 1 of the form is
\* published and version 2, which makes the field a required, is a draft.
StoredForms ==
  { Form(1, "f1", 1, "published", [sections |-> <<Section("s1", Items(<<PlainA>>), Items(<<>>))>>]),
    Form(2, "f1", 2, "draft", [sections |-> <<Section("s1", Items(<<RequiredA>>), Items(<<>>))>>]) }

\* Most submissions ever created.
MaxSubmissions == 2

SubmissionIds == (Cardinality(StoredForms) + 1)..(Cardinality(StoredForms) + MaxSubmissions)

\* The answer maps patients send: no answer, which version 1 of the form
\* accepts and version 2 rejects, and an answer for the field a.
SubmittedData == { NoAnswers, [k \in {"a"} |-> Str("Yes")] }

\* The authenticated callers: the patient who submits and an admin.
Callers == { [userId |-> "u1", role |-> "patient"], [userId |-> "admin1", role |-> "admin"] }

\* The day of InitSubmissions, which no step of this specification changes.
SubmissionDay == "2024-06-01"

\* A stored Submission document.
Submission(id, formId, formVersion, submittedBy, data, status) ==
  [id |-> id, formId |-> formId, formVersion |-> formVersion, submittedBy |-> submittedBy,
   data |-> data, status |-> status]

InitSubmissions ==
  /\ form = NoForm
  /\ answers = NoAnswers
  /\ today = SubmissionDay
  /\ call = "none"
  /\ result = <<>>
  /\ store = StoredForms
  /\ nextId = Cardinality(StoredForms) + 1
  /\ reqs = NoCalls
  /\ submissions = {}

\* validateSubmissionData on the answer maps patients send and the stored
\* forms' definitions, on the day of this specification.
ValidationResults ==
  [data \in SubmittedData |->
     [definition \in {f.definition : f \in StoredForms} |->
        validateSubmissionData(data, definition, SubmissionDay)]]

\* const validationResult = await this.validator.validateSubmissionData(data, form)
validationResult(data, found) == ValidationResults[data][found.definition]

canUpdateSubmission(submission) == [canUpdate |-> submission.status # "done"]

canDeleteSubmission(submission) == [canDelete |-> submission.status # "done"]

CreatingSubmissions == Cardinality({r \in Slots : reqs[r].op = "createSubmission"})

\* Another submission may still be created within the bound.
MayCreate == (nextId - Cardinality(StoredForms) - 1) + CreatingSubmissions < MaxSubmissions

\* createSubmission from its start to its next await: the latest published
\* form is read; for status done the validator is awaited next, otherwise
\* `this.repository.create(...)`.  args holds the arguments of the call.
CreateSubmissionFind(r, args) ==
  LET published == Latest(WithStatus(args.formId, "published"))
  IN  IF published = {} THEN Ends(r)
      ELSE \E found \in published :
             Goes(r, [args EXCEPT !.op = "createSubmission",
                                  !.pc = IF args.status = "done" THEN "validate" ELSE "create",
                                  !.version = found.version,
                                  !.definition = found.definition,
                                  !.dataToValidate = args.data])

\* submitAnswers: createSubmission with status done.
SubmitAnswers(r, formId, data, submittedBy) ==
  /\ reqs[r].op = "idle"
  /\ MayCreate
  /\ CreateSubmissionFind(r, [Idle EXCEPT !.formId = formId, !.hasData = TRUE, !.data = data,
                                         !.userId = submittedBy, !.status = "done"])
  /\ UNCHANGED <<store, nextId, submissions>>
  /\ UNCHANGED engine

\* saveInProgressSubmission, up to the call of updateSubmission or of
\* createSubmission: findInProgressByFormIdAndUser returns the in-progress
\* submission created last.
SaveInProgressFindInProgress(r, formId, data, submittedBy) ==
  /\ reqs[r].op = "idle"
  /\ MayCreate
  /\ LET drafts == {s \in submissions : /\ s.formId = formId
                                        /\ s.submittedBy = submittedBy
                                        /\ s.status = "in-progress"}
     IN  IF drafts # {}
         THEN LET existingDraft == CHOOSE s \in drafts : \A t \in drafts : t.id <= s.id
              IN  Goes(r, [Idle EXCEPT !.op = "updateSubmission", !.pc = "findById",
                                       !.id = existingDraft.id, !.hasData = TRUE,
                                       !.data = data, !.userId = submittedBy])
         ELSE Goes(r, [Idle EXCEPT !.op = "createSubmission", !.pc = "findLatestPublished",
                                   !.formId = formId, !.hasData = TRUE, !.data = data,
                                   !.userId = submittedBy, !.status = "in-progress"])
  /\ UNCHANGED <<store, nextId, submissions>>
  /\ UNCHANGED engine

\* createSubmission as saveInProgressSubmission calls it.
CreateSubmissionFindLatestPublished(r) ==
  /\ reqs[r].op = "createSubmission" /\ reqs[r].pc = "findLatestPublished"
  /\ CreateSubmissionFind(r, reqs[r])
  /\ UNCHANGED <<store, nextId, submissions>>
  /\ UNCHANGED engine

\* await this.repository.create({formId, formVersion: form.version, ...})
CreateSubmissionCreate(r) ==
  /\ reqs[r].op = "createSubmission" /\ reqs[r].pc = "create"
  /\ submissions' = submissions \cup
                      {Submission(nextId, reqs[r].formId, reqs[r].version, reqs[r].userId,
                                  reqs[r].data, reqs[r].status)}
  /\ nextId' = nextId + 1
  /\ Ends(r)
  /\ UNCHANGED store
  /\ UNCHANGED engine

\* updateSubmission from its start to its next repository call: findById,
\* the owner check, canUpdateSubmission.  args holds the arguments.
UpdateSubmissionFind(r, args) ==
  LET found == {s \in submissions : s.id = args.id}
  IN  IF found = {} THEN Ends(r)
      ELSE LET submission == CHOOSE s \in found : TRUE
           IN  IF submission.submittedBy # args.userId THEN Ends(r)
               ELSE IF ~canUpdateSubmission(submission).canUpdate THEN Ends(r)
               ELSE IF args.status = "done"
                    THEN Goes(r, [args EXCEPT !.op = "updateSubmission",
                                              !.pc = "findLatestPublished",
                                              !.formId = submission.formId,
                                              !.dataToValidate =
                                                 IF args.hasData THEN args.data
                                                 ELSE submission.data])
                    ELSE Goes(r, [args EXCEPT !.op = "updateSubmission", !.pc = "update"])

\* updateSubmission(id, updates, userId); updates holds data, status, both
\* or neither.
UpdateSubmissionCall(r, id, hasData, data, status, userId) ==
  /\ reqs[r].op = "idle"
  /\ UpdateSubmissionFind(r, [Idle EXCEPT !.id = id, !.hasData = hasData,
                                         !.data = IF hasData THEN data ELSE NoAnswers,
                                         !.status = status, !.userId = userId])
  /\ UNCHANGED <<store, nextId, submissions>>
  /\ UNCHANGED engine

\* updateSubmission as saveInProgressSubmission calls it.
UpdateSubmissionFindById(r) ==
  /\ reqs[r].op = "updateSubmission" /\ reqs[r].pc = "findById"
  /\ UpdateSubmissionFind(r, reqs[r])
  /\ UNCHANGED <<store, nextId, submissions>>
  /\ UNCHANGED engine

\* const form = await this.formsRepository.findLatestPublished(submission.formId)
UpdateSubmissionFindLatestPublished(r) ==
  /\ reqs[r].op = "updateSubmission" /\ reqs[r].pc = "findLatestPublished"
  /\ LET published == Latest(WithStatus(reqs[r].formId, "published"))
     IN  IF published = {} THEN Ends(r)
         ELSE \E found \in published :
                Goes(r, [reqs[r] EXCEPT !.pc = "validate", !.version = found.version,
                                        !.definition = found.definition])
  /\ UNCHANGED <<store, nextId, submissions>>
  /\ UNCHANGED engine

\* const validationResult = await this.validator.validateSubmissionData(..., form)
\* in createSubmission and in updateSubmission, with the form read before:
\* a failed validation throws, otherwise the call goes on to its write.
AwaitValidateSubmissionData(r) ==
  /\ reqs[r].op \in {"createSubmission", "updateSubmission"} /\ reqs[r].pc = "validate"
  /\ IF ~validationResult(reqs[r].dataToValidate, reqs[r]).isValid
     THEN Ends(r)
     ELSE Goes(r, [reqs[r] EXCEPT !.pc = IF reqs[r].op = "createSubmission"
                                         THEN "create" ELSE "update"])
  /\ UNCHANGED <<store, nextId, submissions>>
  /\ UNCHANGED engine

\* await this.repository.update(id, updates): the document with this _id, if
\* there is one, gets the properties of updates.
UpdateSubmissionUpdate(r) ==
  /\ reqs[r].op = "updateSubmission" /\ reqs[r].pc = "update"
  /\ submissions' =
       {IF s.id = reqs[r].id
        THEN [s EXCEPT !.data = IF reqs[r].hasData THEN reqs[r].data ELSE @,
                       !.status = IF reqs[r].status # "" THEN reqs[r].status ELSE @]
        ELSE s : s \in submissions}
  /\ Ends(r)
  /\ UNCHANGED <<store, nextId>>
  /\ UNCHANGED engine

\* deleteSubmission, up to `await this.repository.delete(id)`.
DeleteSubmissionFindById(r, id, userId, userRole) ==
  /\ reqs[r].op = "idle"
  /\ LET found == {s \in submissions : s.id = id}
     IN  IF found = {} THEN Ends(r)
         ELSE LET submission == CHOOSE s \in found : TRUE
              IN  IF userRole = "patient" /\ submission.submittedBy # userId THEN Ends(r)
                  ELSE IF ~canDeleteSubmission(submission).canDelete THEN Ends(r)
                  ELSE Goes(r, [Idle EXCEPT !.op = "deleteSubmission", !.pc = "delete",
                                            !.id = id, !.userId = userId])
  /\ UNCHANGED <<store, nextId, submissions>>
  /\ UNCHANGED engine

\* await this.repository.delete(id)
DeleteSubmissionDelete(r) ==
  /\ reqs[r].op = "deleteSubmission" /\ reqs[r].pc = "delete"
  /\ submissions' = {s \in submissions : s.id # reqs[r].id}
  /\ Ends(r)
  /\ UNCHANGED <<store, nextId>>
  /\ UNCHANGED engine

\* The status a request body carries for an update: none, or done.
UpdateStatuses == {"", "done"}

NextSubmissions ==
  \/ \E r \in Slots, formId \in FormIds, data \in SubmittedData :
       SubmitAnswers(r, formId, data, "u1")
  \/ \E r \in Slots, formId \in FormIds, data \in SubmittedData :
       SaveInProgressFindInProgress(r, formId, data, "u1")
  \/ \E r \in Slots : CreateSubmissionFindLatestPublished(r)
  \/ \E r \in Slots : CreateSubmissionCreate(r)
  \/ \E r \in Slots, id \in SubmissionIds, hasData \in BOOLEAN, data \in SubmittedData,
        status \in UpdateStatuses, caller \in Callers :
       UpdateSubmissionCall(r, id, hasData, data, status, caller.userId)
  \/ \E r \in Slots : UpdateSubmissionFindById(r)
  \/ \E r \in Slots : UpdateSubmissionFindLatestPublished(r)
  \/ \E r \in Slots : AwaitValidateSubmissionData(r)
  \/ \E r \in Slots : UpdateSubmissionUpdate(r)
  \/ \E r \in Slots, id \in SubmissionIds, caller \in Callers :
       DeleteSubmissionFindById(r, id, caller.userId, caller.role)
  \/ \E r \in Slots : DeleteSubmissionDelete(r)
  \/ \E r \in Slots, formId \in FormIds : PublishFindDraft(r, formId)
  \/ \E r \in Slots : PublishFindLatestPublished(r)
  \/ \E r \in Slots : PublishArchiveFind(r)
  \/ \E r \in Slots : ArchiveUpdate(r)
  \/ \E r \in Slots : PublishUpdate(r)

SpecSubmissions == InitSubmissions /\ [][NextSubmissions]_vars

(***************************************************************************)
(* Claims about the branching resolver and the submission checks           *)
(***************************************************************************)
FormFields == getAllFields(form)

\* The expression is present and the evaluator answers true for it.
Holds(opt) == opt.present /\ evaluate(opt.text, answers, today)

HasShowIf(field) == field.hasBranching /\ field.showIf.present
HasHideIf(field) == field.hasBranching /\ field.hideIf.present

\* C1: whenever resolveVisibility has run, every field whose hideIf expression
\* evaluates true is mapped to false, whatever its showIf evaluates to.
C1_HideIfWins ==
  call = "resolveVisibility" =>
    \A i \in 1..Len(FormFields) :
      (HasHideIf(FormFields[i]) /\ Holds(FormFields[i].hideIf))
        => MapHas(result, FormFields[i].id) /\ ~MapGet(result, FormFields[i].id)

\* A field whose showIf and hideIf both evaluate true has been resolved.
C1_Witness ==
  /\ call = "resolveVisibility"
  /\ \E i \in 1..Len(FormFields) :
       /\ HasHideIf(FormFields[i]) /\ Holds(FormFields[i].hideIf)
       /\ HasShowIf(FormFields[i]) /\ Holds(FormFields[i].showIf)

\* C2 as stated: the map has one entry per field, and the entry of f is
\* (f has no showIf or showIf evaluates true) and not (f has hideIf and hideIf
\* evaluates true).
C2_AsStated ==
  call = "resolveVisibility" =>
    /\ result.keys = [i \in 1..Len(FormFields) |-> FormFields[i].id]
    /\ \A i \in 1..Len(FormFields) :
         result.val[i] = ( /\ (~HasShowIf(FormFields[i]) \/ Holds(FormFields[i].showIf))
                           /\ ~(HasHideIf(FormFields[i]) /\ Holds(FormFields[i].hideIf)) )

\* C2 amended: the same, with a showIf that is the empty string counting as no
\* showIf.  The entry depends on the field's own expressions and the answer
\* map alone; a form without showIf and hideIf maps every field to true.
C2_Visibility ==
  call = "resolveVisibility" =>
    /\ result.keys = [i \in 1..Len(FormFields) |-> FormFields[i].id]
    /\ \A i \in 1..Len(FormFields) :
         result.val[i] = ( /\ \/ ~HasShowIf(FormFields[i])
                              \/ FormFields[i].showIf.text = <<>>
                              \/ Holds(FormFields[i].showIf)
                           /\ ~(HasHideIf(FormFields[i]) /\ Holds(FormFields[i].hideIf)) )
    /\ (\A i \in 1..Len(FormFields) : ~HasShowIf(FormFields[i]) /\ ~HasHideIf(FormFields[i]))
         => \A i \in 1..Len(FormFields) : result.val[i]

\* A field is resolved visible although the field its showIf reads is resolved
\* hidden: the answer stored for the hidden field decides.
C2_Witness ==
  /\ call = "resolveVisibility"
  /\ \E i, j \in 1..Len(FormFields) :
       /\ HasShowIf(FormFields[j])
       /\ SeqHas(extractFieldReferences(FormFields[j].showIf.text), FormFields[i].id)
       /\ ~result.val[i]
       /\ result.val[j]

\* The codes of the errors that report a rule of a field.
RuleCodes == {"required", "requiredIf", "min", "max", "regex", "cross_field",
              "invalid_option", "invalid_type", "required_field"}

ResultHasError(path, codes) ==
  \E e \in 1..Len(result.errors) : result.errors[e].path = path /\ result.errors[e].code \in codes

Visibility == resolveVisibility(form, answers, today)

\* C3: submission validation reports no rule error for a field whose resolved
\* visibility is false.
C3_HiddenFieldsSkipped ==
  call = "validateSubmissionData" =>
    \A i \in 1..Len(FormFields) :
      ~MapGet(Visibility, FormFields[i].id)
        => ~ResultHasError(<<"field", FormFields[i].id>>, RuleCodes)

\* A hidden field with a required or requiredIf rule and no answer, in a
\* submission that validation accepts.
C3_Witness ==
  /\ call = "validateSubmissionData"
  /\ result.isValid
  /\ \E i \in 1..Len(FormFields) :
       /\ ~MapGet(Visibility, FormFields[i].id)
       /\ FormFields[i].id \notin DOMAIN answers
       /\ \E r \in 1..Len(FormFields[i].validation) :
            FormFields[i].validation[r].rule \in {"required", "requiredIf"}

VisibleField(k) == MapHas(Visibility, k) /\ MapGet(Visibility, k)

\* C4: every submitted key that is not a visible field of the form gets an
\* invalid_field error, so an accepted submission answers visible fields only.
C4_InvalidField ==
  call = "validateSubmissionData" =>
    /\ \A k \in DOMAIN answers :
         ~VisibleField(k) => ResultHasError(<<"field", k>>, {"invalid_field"})
    /\ result.isValid => \A k \in DOMAIN answers : VisibleField(k)

\* An answer for a hidden field of the form and an answer for a key that is no
\* field of the form were both submitted and both rejected.
C4_Witness ==
  /\ call = "validateSubmissionData"
  /\ \E k \in DOMAIN answers : MapHas(Visibility, k) /\ ~MapGet(Visibility, k)
  /\ \E k \in DOMAIN answers : ~MapHas(Visibility, k)
  /\ ~result.isValid

\* C10: validateField returns one error per failing rule, in rule order, each
\* with the code and the message of its rule.
C10_AllFailuresReported ==
  call = "validateField" =>
    LET field == result.field
        rules == field.validation
        failing == SelectSeq([i \in 1..Len(rules) |-> i],
                             LAMBDA i : validateRule(field, Answer(answers, field.id), rules[i],
                                                     answers, today) # NoError)
    IN  /\ Len(result.errors) = Len(failing)
        /\ \A k \in 1..Len(failing) :
             /\ result.errors[k].code = rules[failing[k]].rule
             /\ result.errors[k].message = <<rules[failing[k]].message>>

\* Two rules of one field fail in the same call.
C10_Witness ==
  /\ call = "validateField"
  /\ Len(result.errors) >= 2
  /\ result.errors[1].code # result.errors[2].code

(***************************************************************************)
(* Claims about the definition validator                                   *)
(***************************************************************************)
\* The names expressions use for fields.
Names == {"a", "b", "c", "x"}

\* u -> v is an edge of the graph: v is in the dependency list stored for u.
Edge(graph, u, v) == SeqHas(GraphDeps(graph, u), v)

RECURSIVE ReachIn(_, _, _)
\* The nodes reached from the set S by one to n edges.
ReachIn(graph, S, n) ==
  IF n = 0 THEN {}
  ELSE LET step == {v \in Names : \E u \in S : Edge(graph, u, v)}
       IN  step \cup ReachIn(graph, step, n - 1)

HasCycle(graph) == \E u \in Names : u \in ReachIn(graph, {u}, Cardinality(Names))

\* cycle is a closed walk of the graph: it ends where it starts and each
\* element depends on the next one.
ClosedPath(graph, cycle) ==
  /\ Len(cycle) >= 2
  /\ cycle[1] = cycle[Len(cycle)]
  /\ \A i \in 1..(Len(cycle) - 1) : Edge(graph, cycle[i], cycle[i + 1])

\* C5: detectCircularDependencies returns the empty sequence exactly when the
\* dependency graph of the form has no cycle, and every cycle it returns is a
\* closed path of the graph, so it holds the fields that lie on that cycle.
C5_CyclesIffCyclic ==
  call = "detectCircularDependencies" =>
    /\ (result = <<>>) <=> ~HasCycle(buildDependencyGraph(form))
    /\ \A i \in 1..Len(result) : ClosedPath(buildDependencyGraph(form), result[i])

\* a depends on b and b depends on a, and the cycle a, b, a is returned.
C5_Witness ==
  /\ call = "detectCircularDependencies"
  /\ Edge(buildDependencyGraph(form), "a", "b")
  /\ Edge(buildDependencyGraph(form), "b", "a")
  /\ \E i \in 1..Len(result) : result[i] = <<"a", "b", "a">>

\* The expressions of a field: its showIf, its hideIf and the conditions of
\* its validation rules.
Expressions(field) ==
  (IF field.hasBranching /\ field.showIf.present THEN {field.showIf.text} ELSE {})
  \cup (IF field.hasBranching /\ field.hideIf.present THEN {field.hideIf.text} ELSE {})
  \cup {field.validation[i].condition.text :
          i \in {j \in 1..Len(field.validation) : field.validation[j].condition.present}}

\* The names an expression mentions.
Mentions(expression) == {expression[i] : i \in 1..Len(expression)} \cap Names

\* The fields of a definition, a left-out fields or groups property counting
\* as an empty list.
FieldsOf(definition) == SectionFields(definition.sections)

Dangling(definition) ==
  \E i \in 1..Len(FieldsOf(definition)) :
    \E expression \in Expressions(FieldsOf(definition)[i]) :
      \E name \in Mentions(expression) : name \notin FieldIdSet(FieldsOf(definition))

\* C7 as stated: a failed shape check returns the shape errors alone, a
\* passed one is followed by every one of the checks 2-6 and the result is
\* the list of all their errors.
C7_Pipeline ==
  call = "validateFormDefinition" =>
    /\ ~result.threw
    /\ validateZodSchema(form) # <<>> => result.errors = validateZodSchema(form)
    /\ validateZodSchema(form) = <<>> =>
         result.errors = validateFieldIdUniqueness(form) \o validateFieldOptions(form)
                         \o validateBranching(form) \o validateValidationRules(form)
                         \o circularErrors(form)

\* The number of fields of the definition that carry the identifier.
Uses(definition, id) ==
  Cardinality({i \in 1..Len(FieldsOf(definition)) : FieldsOf(definition)[i].id = id})

\* C8 as stated: a definition that passes the shape check gets exactly one
\* duplicate_field_id error for every identifier used by two or more fields
\* and none for an identifier used once.
C8_DuplicatesOnce ==
  (call = "validateFormDefinition" /\ validateZodSchema(form) = <<>>) =>
    /\ ~result.threw
    /\ \A id \in Names :
         Cardinality({i \in 1..Len(result.errors) :
                        /\ result.errors[i].code = "duplicate_field_id"
                        /\ result.errors[i].path = <<"field", id>>})
           = IF Uses(form, id) >= 2 THEN 1 ELSE 0

\* C9 as stated: every name an expression of the definition mentions that is
\* no field of the form gets an error, so the call returns a non-empty error
\* list for a definition with a dangling reference.
C9_DanglingReported ==
  (call = "validateFormDefinition" /\ Dangling(form)) =>
    /\ ~result.threw
    /\ Len(result.errors) > 0

(***************************************************************************)
(* Claims about the forms service                                          *)
(***************************************************************************)
\* C6: whatever createDraft, updateDraft, publish, archive and deleteDraft
\* calls have run, every stored definition is one validateFormDefinition
\* returns zero errors for, and it has an acyclic dependency graph and no
\* reference to a field that does not exist.
C6_StoredFormsValid ==
  \A f \in store :
    /\ validateFormDefinition(f.definition) = Returned(<<>>)
    /\ ~HasCycle(buildDependencyGraph(f.definition))
    /\ ~Dangling(f.definition)

\* A published form with a branching expression, next to an archived version
\* and a draft.
C6_Witness ==
  /\ \E f \in store :
       /\ f.status = "published"
       /\ \E i \in 1..Len(FieldsOf(f.definition)) : FieldsOf(f.definition)[i].hasBranching
  /\ \E f \in store : f.status = "archived"
  /\ \E f \in store : f.status = "draft"

(***************************************************************************)
(* Claims about the rules engine and the evaluator                         *)
(***************************************************************************)
HasRule(field, kind) == \E i \in 1..Len(field.validation) : field.validation[i].rule = kind

\* The value of the field's first rule of the kind.
RuleValue(field, kind) ==
  field.validation[CHOOSE i \in 1..Len(field.validation) :
                     /\ field.validation[i].rule = kind
                     /\ \A j \in 1..(i - 1) : field.validation[j].rule # kind].value

\* The field validateField was called for is a number field with rules
\* min = lo and max = hi, lo <= hi, and its answer is a number.
NumberInRange ==
  /\ call = "validateField"
  /\ result.field.type = "number"
  /\ HasRule(result.field, "min") /\ HasRule(result.field, "max")
  /\ RuleValue(result.field, "min").t = "num" /\ RuleValue(result.field, "max").t = "num"
  /\ RuleValue(result.field, "min").n <= RuleValue(result.field, "max").n
  /\ Answer(answers, result.field.id).t = "num"

\* C11: for a number field with rules min = lo and max = hi, lo <= hi, and a
\* numeric value v, validateField returns exactly one error, of code min, when
\* v < lo, exactly one error, of code max, when v > hi, and no error when
\* lo <= v <= hi.
C11_MinMax ==
  NumberInRange =>
    LET v == Answer(answers, result.field.id).n
        lo == RuleValue(result.field, "min").n
        hi == RuleValue(result.field, "max").n
        codes == [i \in 1..Len(result.errors) |-> result.errors[i].code]
    IN  /\ v < lo => codes = <<"min">>
        /\ v > hi => codes = <<"max">>
        /\ (lo <= v /\ v <= hi) => codes = <<>>

\* The value -5 against min = 0 and max = 120: one error, of code min.
C11_Witness ==
  /\ NumberInRange
  /\ Answer(answers, result.field.id) = Num(-5)
  /\ RuleValue(result.field, "min") = Num(0)
  /\ RuleValue(result.field, "max") = Num(120)
  /\ Len(result.errors) = 1
  /\ result.errors[1].code = "min"

\* The emptiness predicate: absent or null, an empty or all-whitespace string,
\* an empty array.
Empty(value) ==
  \/ value \in {Undef, Null}
  \/ value \in {Str(""), Str(" ")}
  \/ value = Arr(<<>>)

\* The call returned an error with this code and this message.
Reported(code, message) ==
  \E i \in 1..Len(result.errors) :
    result.errors[i].code = code /\ result.errors[i].message = <<message>>

\* C12: a required rule yields an error exactly when the value is empty; a
\* requiredIf rule yields one exactly when its condition evaluates true
\* against the answer map and the value is empty.
C12_RequiredWhenEmpty ==
  call = "validateField" =>
    \A i \in 1..Len(result.field.validation) :
      LET rule == result.field.validation[i]
          value == Answer(answers, result.field.id)
      IN  /\ rule.rule = "required" =>
               (Reported("required", rule.message) <=> Empty(value))
          /\ rule.rule = "requiredIf" =>
               (Reported("requiredIf", rule.message)
                  <=> (/\ rule.condition.present
                       /\ evaluate(rule.condition.text, answers, today)
                       /\ Empty(value)))

\* The smoker answers Yes and the number of cigarettes is absent: one
\* requiredIf error.
C12_Witness ==
  /\ call = "validateField"
  /\ result.field.id = "b"
  /\ "b" \notin DOMAIN answers
  /\ "a" \in DOMAIN answers /\ answers["a"] = Str("Yes")
  /\ Len(result.errors) = 1
  /\ result.errors[1].code = "requiredIf"

\* The answer map gives the field what the round trip asks for: a select
\* field has one of its options, a field with a required rule, or with a
\* requiredIf rule whose condition holds, has a value that is not empty.
Populated(field) ==
  LET value == Answer(answers, field.id)
  IN  /\ field.type = "singleSelect" =>
           value.t = "str" /\ field.options.present /\ SeqHas(field.options.items, value.s)
      /\ field.type = "multiselect" =>
           /\ value.t = "arr" /\ Len(value.a) > 0 /\ field.options.present
           /\ \A i \in 1..Len(value.a) : SeqHas(field.options.items, value.a[i])
      /\ \A i \in 1..Len(field.validation) :
           /\ field.validation[i].rule = "required" => ~Empty(value)
           /\ (/\ field.validation[i].rule = "requiredIf"
               /\ field.validation[i].condition.present
               /\ evaluate(field.validation[i].condition.text, answers, today)) => ~Empty(value)

\* The form has passed validateFormDefinition and every field is populated.
RoundTrip ==
  /\ call = "validateField"
  /\ validateFormDefinition(form) = Returned(<<>>)
  /\ \A i \in 1..Len(FormFields) : Populated(FormFields[i])

\* C13 as stated: on a round trip validateField returns zero errors for every
\* field of the form.
C13_AsStated == RoundTrip => result.errors = <<>>

\* C13: on a round trip validateField returns no required and no requiredIf
\* error for any field, and zero errors for every field that carries no min,
\* max, regex or cross_field rule.
C13_RoundTrip ==
  RoundTrip =>
    /\ \A i \in 1..Len(result.errors) : result.errors[i].code \notin {"required", "requiredIf"}
    /\ (\A kind \in {"min", "max", "regex", "cross_field"} : ~HasRule(result.field, kind))
         => result.errors = <<>>

\* A select field with an option and a conditionally required number that
\* needs no value because its condition is false: no error for the number.
C13_Witness ==
  /\ RoundTrip
  /\ Len(FormFields) = 2
  /\ "a" \in DOMAIN answers /\ answers["a"] = Str("No")
  /\ result.field.id = "b"
  /\ HasRule(result.field, "requiredIf")
  /\ "b" \notin DOMAIN answers
  /\ result.errors = <<>>

\* The resolution rule: the answer stored under the operand when the operand
\* is a key of the answer map, the operand read as a literal otherwise.
Resolve(operand) == IF operand \in DOMAIN answers THEN answers[operand] ELSE parseLiteral(operand)

\* The expression evaluate was called with, split around its operator.
Parsed == parseExpression(replaceSpecialFunctions(result.expression, today))

\* C14 as stated: evaluate compares the two operands as the resolution rule
\* resolves them, an operand being an answer exactly when it is a key of the
\* answer map.
C14_Resolution ==
  (call = "evaluate" /\ Parsed.ok) =>
    result.outcome = Evaluated(evaluateOperator(Resolve(Parsed.left), Parsed.operator,
                                                Resolve(Parsed.right),
                                                /\ Parsed.left = Parsed.right
                                                /\ Parsed.left \in DOMAIN answers))

\* An expression with no operator, or one that splits into a number of
\* operands other than two around the first operator found.
Malformed(expression) ==
  \/ \A i \in 1..Len(expression) : ~IsOperator(expression[i])
  \/ LET first == CHOOSE i \in 1..Len(expression) :
                    IsOperator(expression[i]) /\ \A j \in 1..(i - 1) : ~IsOperator(expression[j])
     IN  SplitCount(expression, expression[first]) # 1

\* C15: evaluate never raises; a malformed expression evaluates to false, and
\* so does an expression whose evaluation throws.
C15_NeverRaises ==
  call = "evaluate" =>
    /\ ~result.outcome.threw
    /\ result.outcome.value \in BOOLEAN
    /\ Malformed(result.expression) => ~result.outcome.value
    /\ tryEvaluate(result.expression, answers, today).threw => ~result.outcome.value

\* Three operands around ==, the first of them an answer: false.
C15_Witness ==
  /\ call = "evaluate"
  /\ result.expression = <<"a", "==", "b", "==", "c">>
  /\ "a" \in DOMAIN answers
  /\ Malformed(result.expression)
  /\ result.outcome = Evaluated(FALSE)

C17_OneDraft ==
  \A formId \in FormIds : Cardinality(WithStatus(formId, "draft")) <= 1

\* C18 as stated: at every reachable state at most one stored form per
\* formId has status published.
C18_OnePublished ==
  \A formId \in FormIds : Cardinality(WithStatus(formId, "published")) <= 1

\* C19 as stated: publishing is atomic, so no state lies between the two
\* steps of a publish call, the previous version archived and the draft not
\* yet promoted, in which the formId has no published version.
C19_AtomicPublish ==
  \A r \in Slots :
    ~ /\ reqs[r].op = "publish"
      /\ reqs[r].pc = "publish"
      /\ reqs[r].version # 0
      /\ WithStatus(reqs[r].formId, "published") = {}

\* C20 as stated: no step changes the definition of a published or archived
\* form or deletes such a form.
C20_OnlyDraftsEditable ==
  [][\A f \in store :
       f.status \in {"published", "archived"} =>
         \E g \in store' : g.id = f.id /\ g.definition = f.definition]_vars

(***************************************************************************)
(* Claims about complete submissions                                       *)
(***************************************************************************)
\* The errors of the last call that report field k as required and missing.
RequiredErrors(k) ==
  {e \in 1..Len(result.errors) :
     /\ result.errors[e].path = <<"field", k>>
     /\ result.errors[e].code \in {"required", "required_field"}}

\* A visible field of the form that has a required rule and no value in the
\* answer map.
MissingRequired(field) ==
  /\ MapGet(Visibility, field.id)
  /\ HasRule(field, "required")
  /\ Missing(Answer(answers, field.id))

\* C22 as stated: validateSubmissionData reports exactly one error for a
\* visible field that has a required rule and no value.
C22_OneErrorPerMissingField ==
  call = "validateSubmissionData" =>
    \A i \in 1..Len(FormFields) :
      MissingRequired(FormFields[i]) => Cardinality(RequiredErrors(FormFields[i].id)) = 1

(***************************************************************************)
(* Claims about the dependency graph and the evaluation order              *)
(***************************************************************************)
Graph == buildDependencyGraph(form)

\* Every dependency of the graph is a field of the form.
NoDanglingEdge(graph) ==
  \A u \in Names, v \in Names : Edge(graph, u, v) => MapHas(graph, v)

\* The places of the identifier in the order.
Places(order, id) == {i \in 1..Len(order) : order[i] = id}

\* C24: on a form whose dependency graph has no cycle and no dangling
\* reference, getEvaluationOrder returns every field identifier exactly once
\* and nothing else, every field after all the fields it depends on.
C24_EvaluationOrder ==
  (call = "getEvaluationOrder" /\ ~HasCycle(Graph) /\ NoDanglingEdge(Graph)) =>
    /\ \A id \in FieldIdSet(getAllFields(form)) : Cardinality(Places(result, id)) = 1
    /\ \A i \in 1..Len(result) : result[i] \in FieldIdSet(getAllFields(form))
    /\ \A i \in 1..Len(result), j \in 1..Len(result) :
         Edge(Graph, result[i], result[j]) => j < i

\* The fields are listed as b, c, a, where b depends on c and c on a, and
\* the order returned is a, c, b.
C24_Witness ==
  /\ call = "getEvaluationOrder"
  /\ ~HasCycle(Graph) /\ NoDanglingEdge(Graph)
  /\ Edge(Graph, "b", "c") /\ Edge(Graph, "c", "a")
  /\ [i \in 1..Len(getAllFields(form)) |-> getAllFields(form)[i].id] = <<"b", "c", "a">>
  /\ result = <<"a", "c", "b">>

(***************************************************************************)
(* Claims about conditions on unanswered fields                            *)
(***************************************************************************)
\* evaluate was called with a well-formed expression whose operator is an
\* ordering operator and whose left operand is a field of the form that has
\* no entry in the answer map.
OrdersUnanswered ==
  /\ call = "evaluate"
  /\ Parsed.ok
  /\ Parsed.operator \in {">", "<", ">=", "<="}
  /\ Parsed.left \in FieldIdSet(getAllFields(form))
  /\ Parsed.left \notin DOMAIN answers

\* C28 as stated: a condition that compares an unanswered field with an
\* ordering operator evaluates to false.
C28_AsStated == OrdersUnanswered => ~result.outcome.value

\* C28 as amended: the identifier of the unanswered field is read as a
\* literal and compared with the other operand, and the condition is true
\* when that comparison holds; it is false when the comparison fails or the
\* evaluation throws.
C28_UnansweredAsLiteral ==
  OrdersUnanswered =>
    result.outcome.value =
      (/\ ~getValueThrows(answers)
       /\ evaluateOperator(parseLiteral(Parsed.left), Parsed.operator, Resolve(Parsed.right), FALSE))

\* b >= 5 with no answer for the field b: true.
C28_Witness ==
  /\ OrdersUnanswered
  /\ result.expression = <<"b", ">=", "5">>
  /\ result.outcome = Evaluated(TRUE)

\* The identifiers the field's showIf and hideIf mention.
BranchingRefs(field) ==
  UNION {Mentions(expression) :
           expression \in (IF field.hasBranching /\ field.showIf.present
                           THEN {field.showIf.text} ELSE {})
                          \cup (IF field.hasBranching /\ field.hideIf.present
                                THEN {field.hideIf.text} ELSE {})}

\* The identifiers the conditions of the field's rules mention.
ConditionRefs(field) ==
  UNION {Mentions(field.validation[i].condition.text) :
           i \in {j \in 1..Len(field.validation) : field.validation[j].condition.present}}

\* The graph of the form as the claim describes it, field by field: a key
\* for the field, holding its branching references and its condition
\* references other than itself; a self-reference is reported as the cycle
\* f, f exactly when it is a branching reference.
GraphAsDescribed(field) ==
  /\ MapHas(Graph, field.id)
  /\ {v \in Names : Edge(Graph, field.id, v)}
       = BranchingRefs(field) \cup (ConditionRefs(field) \ {field.id})
  /\ (field.id \in BranchingRefs(field))
       <=> \E i \in 1..Len(result) : result[i] = <<field.id, field.id>>

\* C25 as stated: every field of the form has a key in the dependency graph
\* that holds the references of its showIf, its hideIf and its rule
\* conditions, itself removed from the latter only, and it is reported as a
\* cycle when it references itself in showIf or hideIf and not when it
\* references itself in a rule condition.
C25_AsStated ==
  call = "detectCircularDependencies" =>
    \A i \in 1..Len(FormFields) : GraphAsDescribed(FormFields[i])

\* No two fields of the form share an identifier.
UniqueIds == \A id \in Names : Uses(form, id) <= 1

\* C25 as amended: the same, for a form whose field identifiers are unique.
C25_GraphOfUniqueIds ==
  (call = "detectCircularDependencies" /\ UniqueIds) =>
    \A i \in 1..Len(FormFields) : GraphAsDescribed(FormFields[i])

\* A form with unique identifiers in which one field references itself in a
\* rule condition and has no self-dependency, and no cycle c, c is reported.
C25_Witness ==
  /\ call = "detectCircularDependencies"
  /\ UniqueIds
  /\ \E i \in 1..Len(FormFields) :
       /\ FormFields[i].id \in ConditionRefs(FormFields[i])
       /\ FormFields[i].id \notin BranchingRefs(FormFields[i])
       /\ ~Edge(Graph, FormFields[i].id, FormFields[i].id)
       /\ \A k \in 1..Len(result) : result[k] # <<FormFields[i].id, FormFields[i].id>>
       /\ GraphDeps(Graph, FormFields[i].id) # <<>>

\* The edges a reported cycle runs along.
CycleEdges(cycle) == {<<cycle[i], cycle[i + 1]>> : i \in 1..(Len(cycle) - 1)}

\* The errors of the last call that report a circular dependency.
CircularErrors ==
  {e \in 1..Len(result.errors) : result.errors[e].code = "circular_dependency"}

\* The cycle a circular_dependency error names in its message.
CycleOf(e) == Tail(result.errors[e].message)

\* C26: every cycle detectCircularDependencies returns is a closed path of the
\* dependency graph, first and last element the same field and each element
\* depending on the next, and the validator reports every cycle in one
\* circular_dependency error only: no two errors name the same cycle.
C26_GenuineCyclesOnce ==
  /\ call = "detectCircularDependencies" =>
       /\ \A i \in 1..Len(result) : ClosedPath(Graph, result[i])
       /\ \A i \in 1..Len(result), j \in 1..Len(result) :
            i # j => CycleEdges(result[i]) # CycleEdges(result[j])
  /\ (call = "validateFormDefinition" /\ ~result.threw) =>
       /\ \A e \in CircularErrors : ClosedPath(Graph, CycleOf(e))
       /\ \A e \in CircularErrors, f \in CircularErrors :
            e # f => CycleEdges(CycleOf(e)) # CycleEdges(CycleOf(f))

\* Two or more cycles are returned, one of them through two or more edges
\* and starting at a field other than the first field of the form.
C26_Witness ==
  /\ call = "detectCircularDependencies"
  /\ Len(result) >= 2
  /\ \E i \in 1..Len(result) : Len(result[i]) >= 3 /\ result[i][1] # Graph.keys[1]

(***************************************************************************)
(* Claims about the life cycle and the versions of stored forms            *)
(***************************************************************************)
\* The place of a status in the life cycle draft -> published -> archived.
StatusRank(status) ==
  CASE status = "draft" -> 1 [] status = "published" -> 2 [] status = "archived" -> 3

\* C23 as stated: the status of a stored form never moves backward along
\* draft -> published -> archived, whatever step is taken.
C23_StatusForward ==
  [][\A f \in store : \A g \in store' :
       g.id = f.id => StatusRank(g.status) >= StatusRank(f.status)]_vars

\* C29 as stated: at every reachable state no two stored forms with the same
\* formId have the same version number.
C29_VersionsDiffer ==
  \A f \in store, g \in store :
    (f.id # g.id /\ f.formId = g.formId) => f.version # g.version

(***************************************************************************)
(* Claims about stored submissions                                         *)
(***************************************************************************)
\* The submissions a step stores with status done, or turns to done.
Completed(s) ==
  /\ s.status = "done"
  /\ \A t \in submissions : t.id = s.id => t.status # "done"

\* The call in slot r ends in this step with the write that completes a
\* submission: the create, or the update, of a call with status done.
Completes(r) ==
  /\ reqs[r].pc \in {"create", "update"}
  /\ reqs[r].status = "done"
  /\ reqs'[r].op = "idle"

\* C21 as stated: whenever a step stores a submission with status done, the
\* data stored in it has no validation error against the published form the
\* completing call read and validated against.
C21_DoneOnlyIfStoredDataValid ==
  [][\A s \in submissions' :
       Completed(s) =>
         \E r \in Slots : Completes(r) /\ validationResult(s.data, reqs[r]).isValid]_vars

\* C27 as stated: a submission with status done keeps its data and its
\* status and is not deleted, whatever step is taken.
C27_DoneIsTerminal ==
  [][\A s \in submissions :
       s.status = "done" =>
         \E t \in submissions' : t.id = s.id /\ t.data = s.data /\ t.status = s.status]_vars

\* C30 as stated: whenever a step stores a submission with status done, its
\* formVersion is the version of the published form the completing call
\* validated the data against.
C30_VersionOfValidation ==
  [][\A s \in submissions' :
       Completed(s) =>
         \E r \in Slots : Completes(r) /\ s.formVersion = reqs[r].version]_vars

================================================================================
